---- MODULE Spec2Model ----
(***************************************************************************)
(* Model of the reconciliation engine of src/src/pdf_processor.py          *)
(* (compare_documents, generate_summary, _parse_decimal, the page loop of  *)
(* extract_items_from_pdf) and of its callers in src/src/file_monitor.py   *)
(* and src/src/notifier.py.  Each component has its own specification;     *)
(* the variables of the other components stay in their idle state.         *)
(*                                                                         *)
(* The Decimals of the item lists are integers counting the smallest unit  *)
(* of the values in play (all values of one run share one exponent); they  *)
(* stay far below 28 digits, so their sums and differences are exact as    *)
(* with decimal.Decimal.  The quotient price_diff / unit_price of line 229 *)
(* is computed as decimal.Decimal computes it, rounded to 28 significant   *)
(* digits, on digit sequences; the price test on its own is followed for   *)
(* unit prices of up to MaxPriceDigits digits in SpecPrice.                *)
(*                                                                         *)
(* The two item lists are lists of distinct Item objects (every Item is    *)
(* built by its own constructor call in _parse_row / _process_text), so a  *)
(* list is a sequence of records and an in-place update of an object is    *)
(* an update of the record at its index.                                   *)
(***************************************************************************)
EXTENDS Integers, Sequences, FiniteSets, TLC

VARIABLES
    offer_items,        \* the caller's offer list (the Item objects' current fields)
    invoice_items,      \* the caller's invoice list (the Item objects' current fields)
    offer_in,           \* value of the offer list at entry to the latest call
    invoice_in,         \* value of the invoice list at entry to the latest call
    invoice_items_dict, \* compare_documents' local dict at exit, in insertion order
    results,            \* the list returned by the latest call (<<>> if none)
    outcome,            \* "none", "returned", or the name of the exception raised
    calls,              \* number of compare_documents calls made so far
    summary,            \* <<>> or <<s>>, s the dict returned by generate_summary
    \* _parse_decimal
    pd_value,           \* the argument: [none |-> is it None, text |-> its characters]
    pd_result,          \* <<>> before the call, then <<[outcome, value]>>
    \* extract_items_from_pdf
    pdf_pages,          \* the pages of the opened document
    extracted,          \* <<>> before the call, then <<the list returned>>
    \* PDFEventHandler
    processed_files,    \* self.processed_files
    processing_queue,   \* self.processing_queue, oldest entry first
    worker_pc,          \* where the process_queue thread stands
    file_path,          \* the worker's local file_path (<<>> if it holds none)
    timers,             \* the paths of the running threading.Timer objects
    handler_calls,      \* the paths the callback was invoked with, in order
    call_raised,        \* per invocation: did the callback raise an Exception
    epoch_calls,        \* per path: callback invocations since it was last discarded
    events_seen,        \* the kinds of the events delivered so far
    event_pc,           \* per delivering thread: where it stands in _handle_pdf
    event_path,         \* per delivering thread: the file_path of its call
    \* AutoProcessor
    pending_offers,     \* self.pending_offers, in insertion order
    comparison_calls,   \* the arguments comparison_callback was invoked with
    clock,              \* the time passed since construction, in hours
    drift,              \* the number of sleeps of the cleanup thread that returned
    slept,              \* the hours the cleanup thread's sleep has lasted
    utc_offset,         \* the change of the local UTC offset since construction, in hours
    registered,         \* per pending offer path: <<when handle_offer last stored it>>, else <<>>
    history,            \* the handle_offer / handle_invoice calls made so far
    thread_pc,          \* per thread: where it stands towards processing_lock
    thread_arg,         \* per thread: the path argument of its current call
    lock_holder,        \* the thread that holds processing_lock, or "none"
    \* SlackNotifier._should_send_notification
    config,             \* self.config
    nf_summary,         \* the summary argument
    nf_result,          \* <<>> before the call, then <<the value returned>>
    \* _process_table
    table,              \* the table argument: rows of cells, header row first
    column_indices,     \* <<>>, or <<d>>, d the dict _identify_columns returned
    parsed_rows,        \* what _parse_row returned for each data row, in order
    table_items,        \* <<>> before the call, then <<the list returned>>
    \* the price test of compare_documents on one offer and one invoice item
    offer_price,        \* offer_item.unit_price, a Decimal
    invoiced_price,     \* invoice_item.unit_price, a Decimal
    price_status        \* <<>>, then <<the status or the exception raised>>

reconcileVars == <<offer_items, invoice_items, offer_in, invoice_in,
                   invoice_items_dict, results, outcome, calls, summary>>
parseVars == <<pd_value, pd_result>>
extractVars == <<pdf_pages, extracted>>
handlerVars == <<processed_files, processing_queue, worker_pc, file_path,
                 timers, handler_calls, call_raised, epoch_calls, events_seen,
                 event_pc, event_path>>
autoVars == <<pending_offers, comparison_calls, clock, drift, slept,
              utc_offset, registered, history,
              thread_pc, thread_arg, lock_holder>>
notifyVars == <<config, nf_summary, nf_result>>
tableVars == <<table, column_indices, parsed_rows, table_items>>
priceVars == <<offer_price, invoiced_price, price_status>>

vars == <<reconcileVars, parseVars, extractVars, handlerVars, autoVars,
          notifyVars, tableVars, priceVars>>

\* The state of each component while another component is being exercised.
ReconcileIdle ==
    /\ offer_items = <<>> /\ invoice_items = <<>>
    /\ offer_in = <<>> /\ invoice_in = <<>> /\ invoice_items_dict = <<>>
    /\ results = <<>> /\ outcome = "none" /\ calls = 0 /\ summary = <<>>

ParseIdle ==
    /\ pd_value = [none |-> TRUE, text |-> <<>>]
    /\ pd_result = <<>>

ExtractIdle ==
    /\ pdf_pages = <<>>
    /\ extracted = <<>>

\* No PDFEventHandler has been constructed.
HandlerIdle ==
    /\ processed_files = {} /\ processing_queue = <<>>
    /\ worker_pc = "none" /\ file_path = <<>> /\ timers = <<>>
    /\ handler_calls = <<>> /\ call_raised = <<>>
    /\ epoch_calls = <<>> /\ events_seen = <<>>
    /\ event_pc = <<>> /\ event_path = <<>>

\* No AutoProcessor has been constructed.
AutoIdle ==
    /\ pending_offers = <<>> /\ comparison_calls = <<>>
    /\ clock = 0 /\ drift = 0 /\ slept = 0 /\ history = <<>>
    /\ utc_offset = 0 /\ registered = <<>>
    /\ thread_pc = <<>> /\ thread_arg = <<>> /\ lock_holder = "none"

NotifyIdle ==
    /\ config = <<>> /\ nf_summary = <<>> /\ nf_result = <<>>

TableIdle ==
    /\ table = <<>> /\ column_indices = <<>>
    /\ parsed_rows = <<>> /\ table_items = <<>>

PriceIdle ==
    /\ offer_price = <<>> /\ invoiced_price = <<>> /\ price_status = <<>>

OutsideReconcile ==
    <<parseVars, extractVars, handlerVars, autoVars, notifyVars, tableVars,
      priceVars>>
OutsideParse ==
    <<reconcileVars, extractVars, handlerVars, autoVars, notifyVars, tableVars,
      priceVars>>
OutsideExtract ==
    <<reconcileVars, parseVars, handlerVars, autoVars, notifyVars, tableVars,
      priceVars>>
OutsideHandler ==
    <<reconcileVars, parseVars, extractVars, autoVars, notifyVars, tableVars,
      priceVars>>
OutsideAuto ==
    <<reconcileVars, parseVars, extractVars, handlerVars, notifyVars, tableVars,
      priceVars>>
OutsideNotify ==
    <<reconcileVars, parseVars, extractVars, handlerVars, autoVars, tableVars,
      priceVars>>
OutsidePrice ==
    <<reconcileVars, parseVars, extractVars, handlerVars, autoVars, notifyVars,
      tableVars>>
OutsideTable ==
    <<reconcileVars, parseVars, extractVars, handlerVars, autoVars, notifyVars,
      priceVars>>

----------------------------------------------------------------------------
(* Bounds of the model *)

\* Len(offer_items) + Len(invoice_items) of the lists the caller starts with
MaxItems == 4
\* number of compare_documents calls the caller makes with its two lists
MaxCalls == 2

(* Reference: the tolerance 0.02 as the fraction ToleranceNum / ToleranceDen *)
ToleranceNum == 2
ToleranceDen == 100

Abs(x) == IF x < 0 THEN -x ELSE x

----------------------------------------------------------------------------
(* Decimal arithmetic (the decimal module under its default context)       *)
(*                                                                         *)
(* pdf_processor.py sets no context, so the result of a subtraction or a   *)
(* division is rounded to 28 significant digits, half to even.  The         *)
(* magnitude of a Decimal is [coef, exp]: the decimal digits of its         *)
(* coefficient, most significant first and <<>> for zero, and its exponent. *)
(* Line 229 takes abs() of the quotient, and rounding half to even is the   *)
(* same for both signs, so the price test works on magnitudes.              *)

\* getcontext().prec
DecimalPrecision == 28

\* The digits of a natural number
RECURSIVE DigitsOf(_)
DigitsOf(n) == IF n = 0 THEN <<>> ELSE Append(DigitsOf(n \div 10), n % 10)

RECURSIVE StripZeros(_)
StripZeros(digits) ==
    IF digits # <<>> /\ Head(digits) = 0 THEN StripZeros(Tail(digits))
    ELSE digits

\* a * 10^n
ShiftLeft(a, n) == IF a = <<>> THEN <<>> ELSE a \o [i \in 1 .. n |-> 0]

\* a < b
NatLess(a, b) ==
    \/ Len(a) < Len(b)
    \/ /\ Len(a) = Len(b)
       /\ \E i \in 1 .. Len(a) :
             /\ a[i] < b[i]
             /\ \A j \in 1 .. i - 1 : a[j] = b[j]

\* a + b: the two numbers are brought to one length; a position receives
\* a carry when a position to its right overflows and every position in
\* between holds a 9
NatAdd(a, b) ==
    LET n == IF Len(a) > Len(b) THEN Len(a) ELSE Len(b)
        x == [i \in 1 .. n - Len(a) |-> 0] \o a
        y == [i \in 1 .. n - Len(b) |-> 0] \o b
        carry == [i \in 0 .. n |->
                     IF \E j \in i + 1 .. n :
                            /\ x[j] + y[j] >= 10
                            /\ \A k \in i + 1 .. j - 1 : x[k] + y[k] = 9
                     THEN 1 ELSE 0]
        digits == [i \in 1 .. n |-> (x[i] + y[i] + carry[i]) % 10]
    IN IF carry[0] = 1 THEN <<1>> \o digits ELSE digits

\* a - b, for b <= a: a position lends to its right when a position to its
\* right is short and every position in between holds equal digits
NatSub(a, b) ==
    LET n == Len(a)
        y == [i \in 1 .. n - Len(b) |-> 0] \o b
        borrow == [i \in 1 .. n |->
                      IF \E j \in i + 1 .. n :
                             /\ a[j] < y[j]
                             /\ \A k \in i + 1 .. j - 1 : a[k] = y[k]
                      THEN 1 ELSE 0]
    IN StripZeros([i \in 1 .. n |-> (a[i] - y[i] - borrow[i] + 10) % 10])

\* |a - b|
NatAbsDiff(a, b) == IF NatLess(a, b) THEN NatSub(b, a) ELSE NatSub(a, b)

\* divmod(r, b) for r < 10 * b, by repeated subtraction
RECURSIVE DigitIn(_, _)
DigitIn(r, b) ==
    IF NatLess(r, b) THEN [q |-> 0, r |-> r]
    ELSE LET rest == DigitIn(NatSub(r, b), b)
         IN [q |-> rest.q + 1, r |-> rest.r]

\* Long division: the digits of a from index i on are brought down to the
\* remainder r, one at a time; q is the quotient so far
RECURSIVE DivFrom(_, _, _, _, _)
DivFrom(a, b, i, q, r) ==
    IF i > Len(a) THEN [q |-> q, r |-> r]
    ELSE LET step == DigitIn(StripZeros(Append(r, a[i])), b)
         IN IF q = <<>> /\ step.q = 0
            THEN DivFrom(a, b, i + 1, <<>>, step.r)
            ELSE DivFrom(a, b, i + 1, Append(q, step.q), step.r)

\* The same long division for a divisor b that fits a machine word, the
\* remainder r kept as a number
RECURSIVE WordDivFrom(_, _, _, _, _)
WordDivFrom(a, b, i, q, r) ==
    IF i > Len(a) THEN [q |-> q, r |-> DigitsOf(r)]
    ELSE LET cur == 10 * r + a[i]
         IN IF q = <<>> /\ cur < b
            THEN WordDivFrom(a, b, i + 1, <<>>, cur)
            ELSE WordDivFrom(a, b, i + 1, Append(q, cur \div b), cur % b)

\* divmod(a, b), for b > 0.  A divisor of at most eight digits, whose
\* tenfold fits a machine word, is divided by as the number word; a longer
\* one digit by digit, and that division starts with as many digits of a as
\* cannot hold b yet.
NatDivMod(a, b) ==
    LET d == [i \in 1 .. 8 - Len(b) |-> 0] \o b
        word == d[1] * 10000000 + d[2] * 1000000 + d[3] * 100000
                + d[4] * 10000 + d[5] * 1000 + d[6] * 100 + d[7] * 10 + d[8]
    IN IF Len(a) < Len(b) THEN [q |-> <<>>, r |-> a]
       ELSE IF Len(b) <= 8 THEN WordDivFrom(a, word, 1, <<>>, 0)
       ELSE DivFrom(a, b, Len(b), <<>>, StripZeros(SubSeq(a, 1, Len(b) - 1)))

\* Decimal._fix: a coefficient of more than prec digits is rounded to prec
\* digits, half to even
DecimalFix(x) ==
    IF Len(x.coef) <= DecimalPrecision THEN x
    ELSE LET kept == SubSeq(x.coef, 1, DecimalPrecision)
             dropped == SubSeq(x.coef, DecimalPrecision + 1, Len(x.coef))
             half == <<5>> \o [i \in 1 .. Len(dropped) - 1 |-> 0]
             rest == StripZeros(dropped)
             up == \/ NatLess(half, rest)
                   \/ rest = half /\ kept[DecimalPrecision] % 2 = 1
             Fixed(rounded) ==
                 IF Len(rounded) > DecimalPrecision
                 THEN [coef |-> SubSeq(rounded, 1, DecimalPrecision),
                       exp |-> x.exp + Len(dropped) + 1]
                 ELSE [coef |-> rounded, exp |-> x.exp + Len(dropped)]
         IN Fixed(IF up THEN NatAdd(kept, <<1>>) ELSE kept)

\* Decimal.__truediv__ for a divisor other than zero: the quotient of zero
\* is zero; any other quotient is computed to prec + 1 digits, a remainder
\* is kept in its last digit, and an exact quotient loses zeros at its end,
\* reduced of them, until the exponent is the ideal one or no zero is left
DecimalDivide(x, y) ==
    LET shift == Len(y.coef) - Len(x.coef) + DecimalPrecision + 1
        exp == x.exp - y.exp - shift
        Quotient(q, r) ==
            LET n == Len(q)
                EndsInZeros(k) == \A j \in n - k + 1 .. n : q[j] = 0
                reduced ==
                    CHOOSE k \in 0 .. n :
                        /\ k = 0 \/ (k <= shift /\ EndsInZeros(k))
                        /\ ~(k < n /\ k + 1 <= shift /\ EndsInZeros(k + 1))
            IN IF r # <<>>
               THEN [coef |-> IF q = <<>> \/ q[n] % 5 = 0
                              THEN NatAdd(q, <<1>>) ELSE q,
                     exp |-> exp]
               ELSE [coef |-> SubSeq(q, 1, n - reduced), exp |-> exp + reduced]
        DivMod(dm) == Quotient(dm.q, dm.r)
    IN IF x.coef = <<>> THEN [coef |-> <<>>, exp |-> x.exp - y.exp]
       ELSE DecimalFix(DivMod(IF shift >= 0
                              THEN NatDivMod(ShiftLeft(x.coef, shift), y.coef)
                              ELSE NatDivMod(x.coef, ShiftLeft(y.coef, -shift))))

\* x > y
DecimalGreater(x, y) ==
    LET m == IF x.exp < y.exp THEN x.exp ELSE y.exp
    IN NatLess(ShiftLeft(y.coef, y.exp - m), ShiftLeft(x.coef, x.exp - m))

\* self.price_tolerance = Decimal('0.02') (line 35)
price_tolerance == [coef |-> <<2>>, exp |-> -2]

----------------------------------------------------------------------------
(* Item and ComparisonResult *)


Item(code, qty, price) ==
    [item_code |-> code, description |-> code \o "@" \o ToString(price),
     quantity |-> qty, unit_price |-> price, total_price |-> qty * price]

\* The Items the lists are drawn from.  Unit price 0 reaches the division by
\* the offer price; 50 against 49 is a deviation of exactly 2% and 49 against
\* 50 one of slightly more; quantity 2 is met by two deliveries of 1, also
\* for the item of unit price 0.
Items ==
    {Item("A", 2, 0), Item("A", 1, 49), Item("A", 1, 50), Item("A", 2, 50),
     Item("B", 1, 50), Item("C", 1, 49)}

ComparisonResult(code, descr, oq, dq, op, ip, qd, pd, st) ==
    [item_code |-> code, description |-> descr,
     offer_quantity |-> oq, delivered_quantity |-> dq,
     offer_price |-> op, invoiced_price |-> ip,
     quantity_difference |-> qd, price_difference |-> pd, status |-> st]

RECURSIVE SeqsUpTo(_, _)
SeqsUpTo(S, n) ==
    IF n = 0 THEN {<<>>}
    ELSE LET shorter == SeqsUpTo(S, n - 1)
         IN shorter \cup {Append(s, x) : s \in {t \in shorter : Len(t) = n - 1}, x \in S}

----------------------------------------------------------------------------
(* compare_documents *)

\* invoice_items_dict is kept as the sequence of the indices (into the
\* invoice list) of the objects it holds, in insertion order; its keys are
\* the item codes of those objects.
DictLookup(items, dict, code) ==
    LET hit == {k \in 1 .. Len(dict) : items[dict[k]].item_code = code}
    IN IF hit = {} THEN 0 ELSE dict[CHOOSE k \in hit : TRUE]

\* GroupInvoiceItems with the total_price of a repeated code left out of the sum.
RECURSIVE GroupInvoiceItems_QuantityOnly(_, _, _)
GroupInvoiceItems_QuantityOnly(items, dict, i) ==
    IF i > Len(items) THEN [items |-> items, dict |-> dict]
    ELSE LET item == items[i]
             e == DictLookup(items, dict, item.item_code)
         IN IF e # 0
            THEN GroupInvoiceItems_QuantityOnly(
                    [items EXCEPT ![e].quantity = @ + item.quantity],
                    dict, i + 1)
            ELSE GroupInvoiceItems_QuantityOnly(items, Append(dict, i), i + 1)

\* Lines 192-200: the grouping loop.  A repeated code adds quantity and
\* total_price to the object already in the dict, i.e. to the first Item of
\* the caller's list that has this code.
RECURSIVE GroupInvoiceItems(_, _, _)
GroupInvoiceItems(items, dict, i) ==
    IF i > Len(items) THEN [items |-> items, dict |-> dict]
    ELSE LET item == items[i]
             e == DictLookup(items, dict, item.item_code)
         IN IF e # 0
            THEN GroupInvoiceItems(
                    [items EXCEPT ![e].quantity = @ + item.quantity,
                                  ![e].total_price = @ + item.total_price],
                    dict, i + 1)
            ELSE GroupInvoiceItems(items, Append(dict, i), i + 1)

\* Line 229 and its outcome, for the magnitudes of price_diff and of
\* offer_item.unit_price: the division raises when the divisor is zero
DecimalStatus(price_diff, unit_price) ==
    IF unit_price.coef = <<>>
    THEN (IF price_diff.coef = <<>> THEN "InvalidOperation"
          ELSE "DivisionByZero")
    ELSE IF DecimalGreater(DecimalDivide(price_diff, unit_price),
                           price_tolerance)
         THEN "price_mismatch"
    ELSE "match"

\* Lines 226-230: status of an offer item found in the dict
DetermineStatus(quantity_diff, price_diff, unit_price) ==
    IF quantity_diff # 0 THEN "quantity_mismatch"
    ELSE DecimalStatus([coef |-> DigitsOf(Abs(price_diff)), exp |-> 0],
                       [coef |-> DigitsOf(Abs(unit_price)), exp |-> 0])

IsException(st) == st \in {"InvalidOperation", "DivisionByZero"}

\* CompareOfferItems with the differences taken as invoice minus offer.
RECURSIVE CompareOfferItems_InvoiceMinusOffer(_, _, _, _, _)
CompareOfferItems_InvoiceMinusOffer(offer, items, dict, i, acc) ==
    IF i > Len(offer) THEN [outcome |-> "returned", results |-> acc]
    ELSE LET offer_item == offer[i]
             e == DictLookup(items, dict, offer_item.item_code)
         IN IF e = 0
            THEN CompareOfferItems_InvoiceMinusOffer(offer, items, dict, i + 1,
                    Append(acc, ComparisonResult(
                        offer_item.item_code, offer_item.description,
                        offer_item.quantity, 0, offer_item.unit_price, 0,
                        offer_item.quantity, 0, "missing")))
            ELSE LET invoice_item == items[e]
                     quantity_diff == invoice_item.quantity - offer_item.quantity
                     price_diff == invoice_item.unit_price - offer_item.unit_price
                     status == DetermineStatus(quantity_diff, price_diff,
                                               offer_item.unit_price)
                 IN IF IsException(status)
                    THEN [outcome |-> status, results |-> <<>>]
                    ELSE CompareOfferItems_InvoiceMinusOffer(offer, items, dict,
                            i + 1,
                            Append(acc, ComparisonResult(
                                offer_item.item_code, offer_item.description,
                                offer_item.quantity, invoice_item.quantity,
                                offer_item.unit_price, invoice_item.unit_price,
                                quantity_diff, price_diff, status)))

\* CompareOfferItems with an offer item that has no invoice item passed over.
RECURSIVE CompareOfferItems_SkipMissing(_, _, _, _, _)
CompareOfferItems_SkipMissing(offer, items, dict, i, acc) ==
    IF i > Len(offer) THEN [outcome |-> "returned", results |-> acc]
    ELSE LET offer_item == offer[i]
             e == DictLookup(items, dict, offer_item.item_code)
         IN IF e = 0
            THEN CompareOfferItems_SkipMissing(offer, items, dict, i + 1, acc)
            ELSE LET invoice_item == items[e]
                     quantity_diff == offer_item.quantity - invoice_item.quantity
                     price_diff == offer_item.unit_price - invoice_item.unit_price
                     status == DetermineStatus(quantity_diff, price_diff,
                                               offer_item.unit_price)
                 IN IF IsException(status)
                    THEN [outcome |-> status, results |-> <<>>]
                    ELSE CompareOfferItems_SkipMissing(offer, items, dict, i + 1,
                            Append(acc, ComparisonResult(
                                offer_item.item_code, offer_item.description,
                                offer_item.quantity, invoice_item.quantity,
                                offer_item.unit_price, invoice_item.unit_price,
                                quantity_diff, price_diff, status)))

\* Lines 203-242: the loop over the offer items.
RECURSIVE CompareOfferItems(_, _, _, _, _)
CompareOfferItems(offer, items, dict, i, acc) ==
    IF i > Len(offer) THEN [outcome |-> "returned", results |-> acc]
    ELSE LET offer_item == offer[i]
             e == DictLookup(items, dict, offer_item.item_code)
         IN IF e = 0
            THEN CompareOfferItems(offer, items, dict, i + 1,
                    Append(acc, ComparisonResult(
                        offer_item.item_code, offer_item.description,
                        offer_item.quantity, 0, offer_item.unit_price, 0,
                        offer_item.quantity, 0, "missing")))
            ELSE LET invoice_item == items[e]
                     quantity_diff == offer_item.quantity - invoice_item.quantity
                     price_diff == offer_item.unit_price - invoice_item.unit_price
                     status == DetermineStatus(quantity_diff, price_diff,
                                               offer_item.unit_price)
                 IN IF IsException(status)
                    THEN [outcome |-> status, results |-> <<>>]
                    ELSE CompareOfferItems(offer, items, dict, i + 1,
                            Append(acc, ComparisonResult(
                                offer_item.item_code, offer_item.description,
                                offer_item.quantity, invoice_item.quantity,
                                offer_item.unit_price, invoice_item.unit_price,
                                quantity_diff, price_diff, status)))

\* ExtraItems with every extra_item result put at the front of the list.
RECURSIVE ExtraItems_AtFront(_, _, _, _, _)
ExtraItems_AtFront(offer, items, dict, k, acc) ==
    IF k > Len(dict) THEN acc
    ELSE LET invoice_item == items[dict[k]]
             offer_item_codes == {offer[j].item_code : j \in 1 .. Len(offer)}
         IN IF invoice_item.item_code \notin offer_item_codes
            THEN ExtraItems_AtFront(offer, items, dict, k + 1,
                    <<ComparisonResult(
                        invoice_item.item_code, invoice_item.description,
                        0, invoice_item.quantity, 0, invoice_item.unit_price,
                        -invoice_item.quantity, -invoice_item.unit_price,
                        "extra_item")>> \o acc)
            ELSE ExtraItems_AtFront(offer, items, dict, k + 1, acc)

\* ExtraItems with the differences of an extra_item result left unsigned.
RECURSIVE ExtraItems_UnsignedDiff(_, _, _, _, _)
ExtraItems_UnsignedDiff(offer, items, dict, k, acc) ==
    IF k > Len(dict) THEN acc
    ELSE LET invoice_item == items[dict[k]]
             offer_item_codes == {offer[j].item_code : j \in 1 .. Len(offer)}
         IN IF invoice_item.item_code \notin offer_item_codes
            THEN ExtraItems_UnsignedDiff(offer, items, dict, k + 1,
                    Append(acc, ComparisonResult(
                        invoice_item.item_code, invoice_item.description,
                        0, invoice_item.quantity, 0, invoice_item.unit_price,
                        invoice_item.quantity, invoice_item.unit_price,
                        "extra_item")))
            ELSE ExtraItems_UnsignedDiff(offer, items, dict, k + 1, acc)

\* Lines 245-258: the loop over invoice_items_dict.values().
RECURSIVE ExtraItems(_, _, _, _, _)
ExtraItems(offer, items, dict, k, acc) ==
    IF k > Len(dict) THEN acc
    ELSE LET invoice_item == items[dict[k]]
             offer_item_codes == {offer[j].item_code : j \in 1 .. Len(offer)}
         IN IF invoice_item.item_code \notin offer_item_codes
            THEN ExtraItems(offer, items, dict, k + 1,
                    Append(acc, ComparisonResult(
                        invoice_item.item_code, invoice_item.description,
                        0, invoice_item.quantity, 0, invoice_item.unit_price,
                        -invoice_item.quantity, -invoice_item.unit_price,
                        "extra_item")))
            ELSE ExtraItems(offer, items, dict, k + 1, acc)

\* The whole call: what it returns or raises, and what it leaves in the
\* caller's invoice list and in its own dict.
compare_documents(offer, invoice) ==
    LET g == GroupInvoiceItems(invoice, <<>>, 1)
        c == CompareOfferItems(offer, g.items, g.dict, 1, <<>>)
    IN [outcome |-> c.outcome,
        results |-> IF c.outcome = "returned"
                    THEN ExtraItems(offer, g.items, g.dict, 1, c.results)
                    ELSE <<>>,
        invoice_items |-> g.items,
        invoice_items_dict |-> [k \in 1 .. Len(g.dict) |-> g.items[g.dict[k]]]]

----------------------------------------------------------------------------
(* generate_summary *)

EmptySummary ==
    [total_items |-> 0, matches |-> 0, quantity_mismatches |-> 0,
     price_mismatches |-> 0, missing_items |-> 0, extra_items |-> 0,
     total_quantity_difference |-> 0, total_price_difference |-> 0]

Bump(b) == IF b THEN 1 ELSE 0

\* SummaryLoop with the differences of the match results left out of the totals.
RECURSIVE SummaryLoop_SkipMatches(_, _, _)
SummaryLoop_SkipMatches(rs, i, s) ==
    IF i > Len(rs) THEN s
    ELSE LET result == rs[i]
             counted == IF result.status = "match" THEN 0 ELSE 1
         IN SummaryLoop_SkipMatches(rs, i + 1,
              [s EXCEPT
                 !.matches = @ + Bump(result.status = "match"),
                 !.quantity_mismatches = @ + Bump(result.status = "quantity_mismatch"),
                 !.price_mismatches = @ + Bump(result.status = "price_mismatch"),
                 !.missing_items = @ + Bump(result.status = "missing"),
                 !.extra_items = @ + Bump(result.status = "extra_item"),
                 !.total_quantity_difference =
                     @ + counted * Abs(result.quantity_difference),
                 !.total_price_difference =
                     @ + counted * Abs(result.price_difference)])

RECURSIVE SummaryLoop(_, _, _)
SummaryLoop(rs, i, s) ==
    IF i > Len(rs) THEN s
    ELSE LET result == rs[i]
         IN SummaryLoop(rs, i + 1,
              [s EXCEPT
                 !.matches = @ + Bump(result.status = "match"),
                 !.quantity_mismatches = @ + Bump(result.status = "quantity_mismatch"),
                 !.price_mismatches = @ + Bump(result.status = "price_mismatch"),
                 !.missing_items = @ + Bump(result.status = "missing"),
                 !.extra_items = @ + Bump(result.status = "extra_item"),
                 !.total_quantity_difference = @ + Abs(result.quantity_difference),
                 !.total_price_difference = @ + Abs(result.price_difference)])

generate_summary(rs) ==
    SummaryLoop(rs, 1, [EmptySummary EXCEPT !.total_items = Len(rs)])

----------------------------------------------------------------------------
(* The state machine: a caller holding one offer list and one invoice list *)

Init ==
    /\ offer_items \in SeqsUpTo(Items, MaxItems)
    /\ invoice_items \in SeqsUpTo(Items, MaxItems - Len(offer_items))
    /\ offer_in = <<>>
    /\ invoice_in = <<>>
    /\ invoice_items_dict = <<>>
    /\ results = <<>>
    /\ outcome = "none"
    /\ calls = 0
    /\ summary = <<>>
    /\ ParseIdle
    /\ ExtractIdle
    /\ HandlerIdle
    /\ AutoIdle
    /\ NotifyIdle
    /\ TableIdle
    /\ PriceIdle

\* results = compare_documents(offer_items, invoice_items), or an exception
Compare ==
    /\ calls < MaxCalls
    /\ LET r == compare_documents(offer_items, invoice_items)
       IN /\ outcome' = r.outcome
          /\ results' = r.results
          /\ invoice_items' = r.invoice_items
          /\ invoice_items_dict' = r.invoice_items_dict
    /\ offer_in' = offer_items
    /\ invoice_in' = invoice_items
    /\ calls' = calls + 1
    /\ summary' = <<>>
    /\ UNCHANGED offer_items
    /\ UNCHANGED OutsideReconcile

\* summary = generate_summary(results)
Summarize ==
    /\ outcome = "returned"
    /\ summary = <<>>
    /\ summary' = <<generate_summary(results)>>
    /\ UNCHANGED <<offer_items, invoice_items, offer_in, invoice_in,
                   invoice_items_dict, results, outcome, calls>>
    /\ UNCHANGED OutsideReconcile

Next == Compare \/ Summarize

Spec == Init /\ [][Next]_vars

----------------------------------------------------------------------------
(* Reference definitions used to state the properties.  They are written   *)
(* over the values the lists had at entry to the latest call and do not    *)
(* use the operators that model the code.                                  *)

CodesOf(s) == {s[i].item_code : i \in 1 .. Len(s)}

HasCode(s, code) == \E i \in 1 .. Len(s) : s[i].item_code = code

FirstIndex(s, code) ==
    CHOOSE i \in 1 .. Len(s) :
        /\ s[i].item_code = code
        /\ \A j \in 1 .. (i - 1) : s[j].item_code # code

RECURSIVE SumQuantity(_, _, _)
SumQuantity(s, code, n) ==
    IF n = 0 THEN 0
    ELSE SumQuantity(s, code, n - 1)
         + (IF s[n].item_code = code THEN s[n].quantity ELSE 0)

RECURSIVE SumTotalPrice(_, _, _)
SumTotalPrice(s, code, n) ==
    IF n = 0 THEN 0
    ELSE SumTotalPrice(s, code, n - 1)
         + (IF s[n].item_code = code THEN s[n].total_price ELSE 0)

AggregatedQuantity(code) == SumQuantity(invoice_in, code, Len(invoice_in))
AggregatedTotalPrice(code) == SumTotalPrice(invoice_in, code, Len(invoice_in))
AggregatedUnitPrice(code) == invoice_in[FirstIndex(invoice_in, code)].unit_price
AggregatedDescription(code) == invoice_in[FirstIndex(invoice_in, code)].description

DistinctCodes(s) ==
    \A i, j \in 1 .. Len(s) : i # j => s[i].item_code # s[j].item_code

\* The codes of the invoice list that no offer item carries, in the order
\* of their first appearance in the invoice list.
ExtraCodeIndices ==
    {i \in 1 .. Len(invoice_in) :
        /\ i = FirstIndex(invoice_in, invoice_in[i].item_code)
        /\ ~HasCode(offer_in, invoice_in[i].item_code)}

RankAmong(S, i) == Cardinality({j \in S : j <= i})

\* s = t \o t for a non-empty t
IsDoubled(s) ==
    /\ Len(s) >= 2
    /\ Len(s) % 2 = 0
    /\ \A i \in 1 .. (Len(s) \div 2) : s[i] = s[i + (Len(s) \div 2)]

FirstHalf(s) == SubSeq(s, 1, Len(s) \div 2)

----------------------------------------------------------------------------
(* Properties *)

\* C1: the result of compare_documents holds exactly one ComparisonResult
\* per distinct item_code of the union of the offer codes and the invoice
\* codes: no code twice, no code of either input absent.
C1_OneResultPerCode ==
    outcome = "returned" =>
        /\ DistinctCodes(results)
        /\ CodesOf(results) = CodesOf(offer_in) \cup CodesOf(invoice_in)

\* The status the stated priority gives offer item i whose code is invoiced:
\* quantity_mismatch, else price_mismatch if the offer price is non-zero and
\* the relative deviation exceeds the tolerance, else match.
PriorityStatus(i) ==
    LET code == offer_in[i].item_code
        qd == offer_in[i].quantity - AggregatedQuantity(code)
        pd == offer_in[i].unit_price - AggregatedUnitPrice(code)
        op == offer_in[i].unit_price
    IN IF qd # 0 THEN "quantity_mismatch"
       ELSE IF op # 0 /\ Abs(pd) * ToleranceDen > ToleranceNum * Abs(op)
            THEN "price_mismatch"
       ELSE "match"

\* C2: every offer item whose code is present in the aggregated invoices
\* gets its status by the strict priority quantity_mismatch, price_mismatch
\* (offer price non-zero and deviation above the tolerance), match.
C2_StatusPriority ==
    calls >= 1 =>
        \A i \in 1 .. Len(offer_in) :
            HasCode(invoice_in, offer_in[i].item_code) =>
                /\ outcome = "returned"
                /\ results[i].status = PriorityStatus(i)

\* C3: an offer item with unit_price zero whose code is invoiced with the
\* same quantity gets status match, whatever the invoiced unit price is.
C3_ZeroOfferPriceMatches ==
    calls >= 1 =>
        \A i \in 1 .. Len(offer_in) :
            ( /\ offer_in[i].unit_price = 0
              /\ HasCode(invoice_in, offer_in[i].item_code)
              /\ AggregatedQuantity(offer_in[i].item_code) = offer_in[i].quantity )
            => /\ outcome = "returned"
               /\ results[i].status = "match"

\* C4: compare_documents returns for every pair of item lists without
\* raising, and generate_summary returns a summary for every result list.
C4_Total ==
    /\ calls >= 1 => outcome = "returned"
    /\ summary # <<>> => summary[1].total_items = Len(results)

\* C5: the aggregation maps each invoice item_code to one aggregate whose
\* quantity and total_price are the sums over the invoice items with that
\* code and whose unit_price and description are those of the first such
\* item in list order.
C5_Aggregation ==
    calls >= 1 =>
        /\ DistinctCodes(invoice_items_dict)
        /\ CodesOf(invoice_items_dict) = CodesOf(invoice_in)
        /\ \A k \in 1 .. Len(invoice_items_dict) :
              LET a == invoice_items_dict[k]
              IN /\ a.quantity = AggregatedQuantity(a.item_code)
                 /\ a.total_price = AggregatedTotalPrice(a.item_code)
                 /\ a.unit_price = AggregatedUnitPrice(a.item_code)
                 /\ a.description = AggregatedDescription(a.item_code)

\* A call has aggregated two invoice items of one code that differ in unit
\* price (and so in description and total_price).
C5_Witness ==
    /\ calls >= 1
    /\ \E i, j \in 1 .. Len(invoice_in) :
          /\ i < j
          /\ invoice_in[i].item_code = invoice_in[j].item_code
          /\ invoice_in[i].unit_price # invoice_in[j].unit_price
          /\ invoice_in[i].total_price # invoice_in[j].total_price

\* C6: compare_documents leaves its inputs unchanged: after the call every
\* Item of the offer list and of the invoice list has the fields it had
\* before the call.
C6_InputsUnchanged ==
    calls >= 1 => /\ offer_items = offer_in
                  /\ invoice_items = invoice_in

\* C7: successive calls with the same offer list and the same invoice list
\* return the same sequence of ComparisonResults.
C7_SameResultEveryCall ==
    [][(calls >= 1 /\ calls' = calls + 1)
          => (outcome' = outcome /\ results' = results)]_vars

\* C8: the results are first one per offer item in offer order, then the
\* extra_item results in the order in which their codes first appear in the
\* invoice list; no extra_item result precedes an offer-derived one.
C8_ResultOrder ==
    outcome = "returned" =>
        LET n == Len(offer_in)
        IN /\ Len(results) = n + Cardinality(ExtraCodeIndices)
           /\ \A i \in 1 .. n :
                 /\ results[i].item_code = offer_in[i].item_code
                 /\ results[i].status # "extra_item"
           /\ \A i \in ExtraCodeIndices :
                 LET r == results[n + RankAmong(ExtraCodeIndices, i)]
                 IN /\ r.item_code = invoice_in[i].item_code
                    /\ r.status = "extra_item"

\* A call has returned results for a non-empty offer followed by two
\* extra_item results whose codes first appear in the invoice list in the
\* order "C", "B", the first of them repeated later in the list.
C8_Witness ==
    /\ outcome = "returned"
    /\ Len(offer_in) >= 1
    /\ \E i, j, k \in 1 .. Len(invoice_in) :
          /\ i < j /\ j < k
          /\ i \in ExtraCodeIndices /\ j \in ExtraCodeIndices
          /\ invoice_in[i].item_code = "C"
          /\ invoice_in[j].item_code = "B"
          /\ invoice_in[k].item_code = "C"
    /\ results[Len(results)].item_code = "B"

\* C9: when every item appears twice in the offer list and twice in the
\* invoice list, compare_documents returns what it returns for the
\* duplicate-free lists.
C9_DuplicatesResolved ==
    (calls = 1 /\ IsDoubled(offer_in) /\ IsDoubled(invoice_in)) =>
        LET single == compare_documents(FirstHalf(offer_in), FirstHalf(invoice_in))
        IN /\ outcome = single.outcome
           /\ results = single.results

\* C10: an offer list with pairwise distinct codes and an invoice list with
\* the same codes, quantities and unit prices give only results with status
\* match, quantity_difference 0 and price_difference 0.
C10_IdenticalListsMatch ==
    ( /\ calls >= 1
      /\ DistinctCodes(offer_in)
      /\ Len(invoice_in) = Len(offer_in)
      /\ {invoice_in[i] : i \in 1 .. Len(invoice_in)}
            = {offer_in[i] : i \in 1 .. Len(offer_in)} )
    => /\ outcome = "returned"
       /\ Len(results) = Len(offer_in)
       /\ \A i \in 1 .. Len(results) :
             /\ results[i].status = "match"
             /\ results[i].quantity_difference = 0
             /\ results[i].price_difference = 0

\* C12: when the quantities of the invoice items sharing an offer item's
\* code add up to the offer quantity, the result for that item has
\* delivered_quantity equal to the offer quantity, quantity_difference 0 and
\* a status other than quantity_mismatch, however the quantity is split.
C12_PartialDeliveriesSummed ==
    calls >= 1 =>
        \A i \in 1 .. Len(offer_in) :
            ( /\ \E j, k \in 1 .. Len(invoice_in) :
                    /\ j < k
                    /\ invoice_in[j].item_code = offer_in[i].item_code
                    /\ invoice_in[k].item_code = offer_in[i].item_code
              /\ AggregatedQuantity(offer_in[i].item_code) = offer_in[i].quantity )
            => /\ outcome = "returned"
               /\ results[i].delivered_quantity = offer_in[i].quantity
               /\ results[i].quantity_difference = 0
               /\ results[i].status # "quantity_mismatch"

CountStatus(rs, st) == Cardinality({i \in 1 .. Len(rs) : rs[i].status = st})

RECURSIVE SumAbsQuantityDifference(_)
SumAbsQuantityDifference(rs) ==
    IF rs = <<>> THEN 0
    ELSE Abs(Head(rs).quantity_difference) + SumAbsQuantityDifference(Tail(rs))

RECURSIVE SumAbsPriceDifference(_)
SumAbsPriceDifference(rs) ==
    IF rs = <<>> THEN 0
    ELSE Abs(Head(rs).price_difference) + SumAbsPriceDifference(Tail(rs))

\* C13: generate_summary is the reference reduction of the result list:
\* total_items is the number of results, each status counter the number of
\* results of that status, the two totals the sums of |quantity_difference|
\* and |price_difference| over all results; the empty list gives all zeros.
C13_SummaryIsReduction ==
    summary # <<>> =>
        LET s == summary[1]
        IN /\ s.total_items = Len(results)
           /\ s.matches = CountStatus(results, "match")
           /\ s.quantity_mismatches = CountStatus(results, "quantity_mismatch")
           /\ s.price_mismatches = CountStatus(results, "price_mismatch")
           /\ s.missing_items = CountStatus(results, "missing")
           /\ s.extra_items = CountStatus(results, "extra_item")
           /\ s.total_quantity_difference = SumAbsQuantityDifference(results)
           /\ s.total_price_difference = SumAbsPriceDifference(results)
           /\ results = <<>> => s = EmptySummary

\* A summary has been made of a list that holds a match result with a
\* non-zero price difference next to results of two other statuses.
C13_Witness ==
    /\ summary # <<>>
    /\ \E i, j, k \in 1 .. Len(results) :
          /\ results[i].status = "match"
          /\ results[i].price_difference # 0
          /\ results[j].status = "extra_item"
          /\ results[k].status = "missing"

\* Reference: the differences of a result are offer minus invoice
DifferencesAreOfferMinusInvoice(r) ==
    /\ r.quantity_difference = r.offer_quantity - r.delivered_quantity
    /\ r.price_difference = r.offer_price - r.invoiced_price

\* C21 as stated: in every ComparisonResult returned, whatever its status,
\* quantity_difference is offer_quantity minus delivered_quantity and
\* price_difference is offer_price minus invoiced_price.
C21_DifferencesAnyStatus ==
    outcome = "returned" =>
        \A i \in 1 .. Len(results) : DifferencesAreOfferMinusInvoice(results[i])

\* C21 as amended: in every ComparisonResult returned whose status is not
\* missing, quantity_difference is offer_quantity minus delivered_quantity
\* and price_difference is offer_price minus invoiced_price; in a missing
\* result quantity_difference is offer_quantity minus delivered_quantity
\* and price_difference is 0.
C21_DifferencesExceptMissingPrice ==
    outcome = "returned" =>
        \A i \in 1 .. Len(results) :
            IF results[i].status = "missing"
            THEN /\ results[i].quantity_difference
                       = results[i].offer_quantity - results[i].delivered_quantity
                 /\ results[i].price_difference = 0
            ELSE DifferencesAreOfferMinusInvoice(results[i])

\* A call has returned a missing result for an item of non-zero price, a
\* compared result with non-zero differences and an extra_item result.
C21_Witness ==
    /\ outcome = "returned"
    /\ \E i \in 1 .. Len(results) :
          results[i].status = "missing" /\ results[i].offer_price # 0
    /\ \E i \in 1 .. Len(results) :
          /\ results[i].status \in {"quantity_mismatch", "price_mismatch"}
          /\ results[i].price_difference # 0
    /\ \E i \in 1 .. Len(results) : results[i].status = "extra_item"

\* C22: every offer item whose code occurs in no invoice item gets a result
\* with status missing, delivered_quantity 0, invoiced_price 0,
\* quantity_difference the offer quantity and price_difference 0; with an
\* empty invoice list every offer item gets such a result, in offer order.
C22_MissingItems ==
    outcome = "returned" =>
        /\ Len(results) >= Len(offer_in)
        /\ \A i \in 1 .. Len(offer_in) :
              ~HasCode(invoice_in, offer_in[i].item_code) =>
                  results[i] = ComparisonResult(
                      offer_in[i].item_code, offer_in[i].description,
                      offer_in[i].quantity, 0, offer_in[i].unit_price, 0,
                      offer_in[i].quantity, 0, "missing")
        /\ invoice_in = <<>> => Len(results) = Len(offer_in)

\* A call has returned a missing result after a compared one.
C22_Witness ==
    /\ outcome = "returned"
    /\ Len(offer_in) >= 2 /\ invoice_in # <<>>
    /\ results[1].status # "missing"
    /\ results[2].status = "missing"
    /\ results[2].quantity_difference > 0

\* C23: every invoice item_code that no offer item carries gets exactly one
\* result: status extra_item, offer_quantity 0, offer_price 0,
\* delivered_quantity the aggregated quantity, quantity_difference minus the
\* aggregated quantity, price_difference minus the aggregate's unit price;
\* with an empty offer list the output is exactly these results, one per
\* distinct invoice code.
C23_ExtraItems ==
    outcome = "returned" =>
        /\ \A code \in CodesOf(invoice_in) \ CodesOf(offer_in) :
              /\ Cardinality({i \in 1 .. Len(results) :
                                 results[i].item_code = code}) = 1
              /\ \A i \in 1 .. Len(results) :
                    results[i].item_code = code =>
                        /\ results[i].status = "extra_item"
                        /\ results[i].offer_quantity = 0
                        /\ results[i].offer_price = 0
                        /\ results[i].delivered_quantity
                              = AggregatedQuantity(code)
                        /\ results[i].invoiced_price = AggregatedUnitPrice(code)
                        /\ results[i].quantity_difference
                              = -AggregatedQuantity(code)
                        /\ results[i].price_difference
                              = -AggregatedUnitPrice(code)
        /\ offer_in = <<>> =>
              /\ Len(results) = Cardinality(CodesOf(invoice_in))
              /\ \A i \in 1 .. Len(results) : results[i].status = "extra_item"

\* A call with an empty offer list has returned two extra_item results, one
\* of them for a code delivered in two parts.
C23_Witness ==
    /\ outcome = "returned"
    /\ offer_in = <<>>
    /\ Len(invoice_in) >= 3
    /\ Len(results) = 2
    /\ \E i \in 1 .. 2 :
          results[i].status = "extra_item" /\ results[i].delivered_quantity = 2


----------------------------------------------------------------------------
(* The price test of compare_documents (pdf_processor.py:226-230) on one   *)
(* offer item and the invoice item of its code, their quantities equal     *)
(*                                                                         *)
(* The unit prices are Decimals as _parse_decimal returns them,            *)
(* Decimal(text) of the digits of the cell, which is not rounded.  Prices   *)
(* are whole numbers of the smallest unit here.                             *)

\* Digits of the longest unit price
MaxPriceDigits == 29

\* The unit prices: 0, the two-digit numbers 40, 48, 49, 50, 51 and 59, and
\* the numbers of MaxPriceDigits digits that begin with 4, 48, 49, 5 or 51
\* and go on with zeros or with nines
Prices ==
    {<<>>}
    \cup {lead \o [i \in 1 .. n - Len(lead) |-> fill] :
             lead \in {<<4>>, <<4, 8>>, <<4, 9>>, <<5>>, <<5, 1>>},
             fill \in {0, 9}, n \in {2, MaxPriceDigits}}

InitPrice ==
    /\ offer_price \in Prices
    /\ invoiced_price \in Prices
    /\ price_status = <<>>
    /\ ReconcileIdle
    /\ ParseIdle
    /\ ExtractIdle
    /\ HandlerIdle
    /\ AutoIdle
    /\ NotifyIdle
    /\ TableIdle

\* Lines 226-230 with quantity_diff = 0: price_diff is the rounded
\* difference of the two prices
determine_status ==
    /\ price_status = <<>>
    /\ LET price_diff ==
               DecimalFix([coef |-> NatAbsDiff(offer_price, invoiced_price),
                           exp |-> 0])
       IN price_status' =
              <<DecimalStatus(price_diff, [coef |-> offer_price, exp |-> 0])>>
    /\ UNCHANGED <<offer_price, invoiced_price>>
    /\ UNCHANGED OutsidePrice

NextPrice == determine_status

SpecPrice == InitPrice /\ [][NextPrice]_vars

\* Reference: the relative deviation of the two prices is equal to, or
\* greater than, the tolerance ToleranceNum / ToleranceDen
DeviationEqualsTolerance ==
    ShiftLeft(NatAbsDiff(offer_price, invoiced_price), 2)
        = NatAdd(offer_price, offer_price)

DeviationAboveTolerance ==
    NatLess(NatAdd(offer_price, offer_price),
            ShiftLeft(NatAbsDiff(offer_price, invoiced_price), 2))

\* C11: the tolerance test is strict.  For an offer item with non-zero unit
\* price whose code is invoiced with the same quantity, a relative price
\* deviation equal to the tolerance gives match and a greater one gives
\* price_mismatch.
C11_StrictTolerance ==
    (price_status # <<>> /\ offer_price # <<>>) =>
        /\ DeviationEqualsTolerance => price_status = <<"match">>
        /\ DeviationAboveTolerance => price_status = <<"price_mismatch">>

----------------------------------------------------------------------------
(* _parse_decimal (pdf_processor.py:166-185)                               *)
(*                                                                         *)
(* A text is a sequence of characters, each a one-character string; a     *)
(* character outside ASCII is written by its name ("EUR" stands for the    *)
(* euro sign).  A Decimal is [coef, places], the integer                   *)
(* coef scaled by 10^-places; Decimal equality is numeric, so values are   *)
(* compared in canonical form (no trailing zero in the fraction).          *)

\* Length of the texts enumerated over Alphabet
MaxTextLen == 3

\* The characters \d matches in a str pattern and Decimal() converts: the
\* decimal digits of every script (Unicode category Nd), by value.  The
\* ASCII digits and two further scripts stand for all of them.
DigitsOfValue(v) ==
    LET AsciiDigits ==
            <<"0", "1", "2", "3", "4", "5", "6", "7", "8", "9">>
        ArabicIndicDigits ==
            <<"ARABIC-INDIC DIGIT ZERO", "ARABIC-INDIC DIGIT ONE",
             "ARABIC-INDIC DIGIT TWO", "ARABIC-INDIC DIGIT THREE",
             "ARABIC-INDIC DIGIT FOUR", "ARABIC-INDIC DIGIT FIVE",
             "ARABIC-INDIC DIGIT SIX", "ARABIC-INDIC DIGIT SEVEN",
             "ARABIC-INDIC DIGIT EIGHT", "ARABIC-INDIC DIGIT NINE">>
        FullwidthDigits ==
            <<"FULLWIDTH DIGIT ZERO", "FULLWIDTH DIGIT ONE", "FULLWIDTH DIGIT TWO",
             "FULLWIDTH DIGIT THREE", "FULLWIDTH DIGIT FOUR", "FULLWIDTH DIGIT FIVE",
             "FULLWIDTH DIGIT SIX", "FULLWIDTH DIGIT SEVEN", "FULLWIDTH DIGIT EIGHT",
             "FULLWIDTH DIGIT NINE">>
    IN {AsciiDigits[v + 1], ArabicIndicDigits[v + 1], FullwidthDigits[v + 1]}

DigitChars == UNION {DigitsOfValue(v) : v \in 0 .. 9}

DigitValue(c) == CHOOSE v \in 0 .. 9 : c \in DigitsOfValue(v)

Dec(coef, places) == [coef |-> coef, places |-> places]

RECURSIVE Canonical(_)
Canonical(d) ==
    IF d.places > 0 /\ d.coef % 10 = 0
    THEN Canonical(Dec(d.coef \div 10, d.places - 1))
    ELSE d

\* Decimal.__eq__
DecimalEq(a, b) == Canonical(a) = Canonical(b)

\* re.sub(r'[^\d.,\-]', '', str(value))
KeepChar(c) == c \in DigitChars \cup {".", ",", "-"}
CleanValue(text) == SelectSeq(text, KeepChar)

Contains(text, c) == \E i \in 1 .. Len(text) : text[i] = c

\* str.replace(old, new) for single characters; new = "" removes
ReplaceChar(text, old, new) ==
    IF new = ""
    THEN LET Other(c) == c # old IN SelectSeq(text, Other)
    ELSE [i \in 1 .. Len(text) |-> IF text[i] = old THEN new ELSE text[i]]

\* Lines 175-180: both separators present: drop every ','; only ',': make
\* every ',' a '.'.
NormaliseSeparators(clean_value) ==
    IF Contains(clean_value, ",") /\ Contains(clean_value, ".")
    THEN ReplaceChar(clean_value, ",", "")
    ELSE IF Contains(clean_value, ",")
    THEN ReplaceChar(clean_value, ",", ".")
    ELSE clean_value

\* Decimal(str) for a string of digits, '.' and '-': scans an optional
\* sign, the integer digits, an optional '.' and the fraction digits;
\* anything else, or no digit at all, is InvalidOperation.
RECURSIVE ScanDigits(_, _, _, _, _)
ScanDigits(t, i, coef, places, in_fraction) ==
    IF i > Len(t) THEN [ok |-> TRUE, coef |-> coef, places |-> places]
    ELSE IF t[i] \in DigitChars
         THEN ScanDigits(t, i + 1, coef * 10 + DigitValue(t[i]),
                         IF in_fraction THEN places + 1 ELSE places, in_fraction)
    ELSE IF t[i] = "." /\ ~in_fraction
         THEN ScanDigits(t, i + 1, coef, places, TRUE)
    ELSE [ok |-> FALSE, coef |-> 0, places |-> 0]

DecimalFromString(t) ==
    LET negative == Len(t) >= 1 /\ t[1] = "-"
        body == IF negative THEN Tail(t) ELSE t
        scan == ScanDigits(body, 1, 0, 0, FALSE)
        has_digit == \E i \in 1 .. Len(body) : body[i] \in DigitChars
    IN IF scan.ok /\ has_digit
       THEN [outcome |-> "returned",
             value |-> Dec(IF negative THEN -scan.coef ELSE scan.coef, scan.places)]
       ELSE [outcome |-> "InvalidOperation", value |-> Dec(0, 0)]

\* _parse_decimal with the conversion outside the try block.
parse_decimal_NoExcept(value) ==
    IF value.none \/ value.text = <<>>
    THEN [outcome |-> "returned", value |-> Dec(0, 0)]
    ELSE DecimalFromString(NormaliseSeparators(CleanValue(value.text)))

\* The whole function; the bare except turns every failure of the
\* conversion into Decimal('0').
parse_decimal(value) ==
    IF value.none \/ value.text = <<>>
    THEN [outcome |-> "returned", value |-> Dec(0, 0)]
    ELSE LET d == DecimalFromString(NormaliseSeparators(CleanValue(value.text)))
         IN IF d.outcome = "returned" THEN d
            ELSE [outcome |-> "returned", value |-> Dec(0, 0)]

\* The texts of test_parse_decimal (tests/test_pdf_processor.py:137-146)
TestTexts ==
    {<<"1", "2", "3", "4", ".", "5", "6">>,
     <<"1", ",", "2", "3", "4", ".", "5", "6">>,
     <<"1", ".", "2", "3", "4", ",", "5", "6">>,
     <<"EUR", "1", ",", "2", "3", "4", ".", "5", "6">>,
     <<"$", "1", ",", "2", "3", "4", ".", "5", "6">>,
     <<"1", "2", "3", "4", ",", "5", "6">>,
     <<"i", "n", "v", "a", "l", "i", "d">>,
     <<>>}

Alphabet == {"1", "0", ".", ",", "-", "x", "ARABIC-INDIC DIGIT THREE"}

ParseInputs ==
    {[none |-> TRUE, text |-> <<>>]}
    \cup {[none |-> FALSE, text |-> t] : t \in TestTexts \cup SeqsUpTo(Alphabet, MaxTextLen)}

InitParse ==
    /\ pd_value \in ParseInputs
    /\ pd_result = <<>>
    /\ ReconcileIdle
    /\ ExtractIdle
    /\ HandlerIdle
    /\ AutoIdle
    /\ NotifyIdle
    /\ TableIdle
    /\ PriceIdle

\* pd_result = self._parse_decimal(pd_value)
Parse ==
    /\ pd_result = <<>>
    /\ pd_result' = <<parse_decimal(pd_value)>>
    /\ UNCHANGED pd_value
    /\ UNCHANGED OutsideParse

NextParse == Parse

SpecParse == InitParse /\ [][NextParse]_vars

\* Reference: t is a decimal literal made of a sign, digits and a point:
\* an optional leading '-', then at most one '.', at least one digit and
\* nothing else.
IsDecimalLiteral(t) ==
    LET start == IF Len(t) >= 1 /\ t[1] = "-" THEN 2 ELSE 1
        rest == start .. Len(t)
    IN /\ \A i \in rest : t[i] \in DigitChars \cup {"."}
       /\ Cardinality({i \in rest : t[i] = "."}) <= 1
       /\ \E i \in rest : t[i] \in DigitChars

\* The text _parse_decimal is left with once it has stripped the characters
\* it does not keep and settled the separators.
StrippedText(value) == NormaliseSeparators(CleanValue(value.text))

\* C14: _parse_decimal never raises; for every input it returns a decimal,
\* and it returns zero whenever the text left after stripping is not a
\* valid decimal literal (or the value is missing or empty).
C14_ParseNeverRaises ==
    pd_result # <<>> =>
        /\ pd_result[1].outcome = "returned"
        /\ (pd_value.none \/ ~IsDecimalLiteral(StrippedText(pd_value)))
              => DecimalEq(pd_result[1].value, Dec(0, 0))

\* _parse_decimal has been called with a text that still holds digits after
\* stripping but is no decimal literal.
C14_Witness ==
    /\ pd_result # <<>>
    /\ ~pd_value.none
    /\ \E i \in 1 .. Len(StrippedText(pd_value)) :
          StrippedText(pd_value)[i] \in DigitChars
    /\ ~IsDecimalLiteral(StrippedText(pd_value))

\* "1.234,56", "1,234.56" and the same with a currency sign
BothConventions ==
    {<<"1", ".", "2", "3", "4", ",", "5", "6">>,
     <<"1", ",", "2", "3", "4", ".", "5", "6">>,
     <<"EUR", "1", ",", "2", "3", "4", ".", "5", "6">>,
     <<"$", "1", ",", "2", "3", "4", ".", "5", "6">>}

\* C15: both separator conventions parse to the same decimal: "1.234,56"
\* and "1,234.56" (with or without a currency symbol) both give 1234.56.
C15_BothConventionsAgree ==
    (pd_result # <<>> /\ ~pd_value.none /\ pd_value.text \in BothConventions)
        => /\ pd_result[1].outcome = "returned"
           /\ DecimalEq(pd_result[1].value, Dec(123456, 2))

----------------------------------------------------------------------------
(* extract_items_from_pdf (pdf_processor.py:37-58)                         *)
(*                                                                         *)
(* A page is [table_items, text_items, error]: the Items _process_table    *)
(* yields for the page's tables, the Items _process_text yields for its    *)
(* text, and where processing the page raises: "none", "tables"            *)
(* (page.extract_tables() raises) or "text" (page.extract_text() raises,   *)
(* or returns None so that re.finditer raises in _process_text).           *)

\* Number of pages of a document
MaxPages == 2

PageVariants ==
    {[table_items |-> t, text_items |-> x, error |-> e] :
        t \in {<<>>, <<Item("A", 1, 49)>>},
        x \in {<<>>, <<Item("A", 1, 49)>>, <<Item("B", 1, 50)>>},
        e \in {"none", "tables", "text"}}

\* Lines 43-52: the page loop; an exception leaves it at once.
RECURSIVE PageLoop(_, _, _)
PageLoop(pages, i, items) ==
    IF i > Len(pages) THEN [raised |-> FALSE, items |-> items]
    ELSE LET page == pages[i]
         IN IF page.error = "tables"
            THEN [raised |-> TRUE, items |-> items]
            ELSE IF page.error = "text"
            THEN [raised |-> TRUE, items |-> items \o page.table_items]
            ELSE PageLoop(pages, i + 1,
                          items \o page.table_items \o page.text_items)

\* The whole function: the except clause of lines 54-56 returns [].
extract_items_from_pdf(pages) ==
    LET r == PageLoop(pages, 1, <<>>)
    IN IF r.raised THEN <<>> ELSE r.items

InitExtract ==
    /\ pdf_pages \in SeqsUpTo(PageVariants, MaxPages)
    /\ extracted = <<>>
    /\ ReconcileIdle
    /\ ParseIdle
    /\ HandlerIdle
    /\ AutoIdle
    /\ NotifyIdle
    /\ TableIdle
    /\ PriceIdle

\* extracted = self.extract_items_from_pdf(pdf_path)
Extract ==
    /\ extracted = <<>>
    /\ extracted' = <<extract_items_from_pdf(pdf_pages)>>
    /\ UNCHANGED pdf_pages
    /\ UNCHANGED OutsideExtract

NextExtract == Extract

SpecExtract == InitExtract /\ [][NextExtract]_vars

\* Reference: the Items of the pages that are processed without a failure,
\* in page order.
RECURSIVE ItemsOfGoodPages(_)
ItemsOfGoodPages(pages) ==
    IF pages = <<>> THEN <<>>
    ELSE (IF Head(pages).error = "none"
          THEN Head(pages).table_items \o Head(pages).text_items
          ELSE <<>>)
         \o ItemsOfGoodPages(Tail(pages))

\* C16: a failure while processing one page is confined to that page: the
\* page contributes no items, the following pages are still processed and
\* the items of the other pages are returned.
C16_PageFailureIsolated ==
    extracted # <<>> => extracted[1] = ItemsOfGoodPages(pdf_pages)

----------------------------------------------------------------------------
(* PDFEventHandler (file_monitor.py:11-76)                                 *)
(*                                                                         *)
(* A path is the sequence of its characters.  The process_queue thread is  *)
(* at "get" (blocked in processing_queue.get), at "callback" (it holds     *)
(* file_path, sleeps and calls the callback), at "timer" (about to start   *)
(* the Timer) or "dead" (the thread has ended).  Events are delivered by   *)
(* the threads that call on_created and on_modified; nothing serialises    *)
(* the statements of _handle_pdf, so a delivering thread is "idle", at     *)
(* "put" (line 40 passed, before line 41) or at "add" (before line 42),    *)
(* and the worker, the Timers and the other delivering thread run in       *)
(* between.                                                                *)

\* Number of watchdog events delivered to one handler
MaxEvents == 3

Paths ==
    {<<"a", ".", "p", "d", "f">>, <<"a", ".", "P", "D", "F">>,
     <<"a", ".", "t", "x", "t">>}

\* str.lower() on one character, as the characters it becomes: the ASCII
\* letters; the characters that lower into ASCII (KELVIN SIGN) or into two
\* characters (I WITH DOT ABOVE); and, standing for the other cased letters
\* outside ASCII, which lower to their small letter, the ones listed here
LowerChar(c) ==
    CASE c = "A" -> <<"a">> [] c = "B" -> <<"b">> [] c = "C" -> <<"c">>
      [] c = "D" -> <<"d">> [] c = "E" -> <<"e">> [] c = "F" -> <<"f">>
      [] c = "G" -> <<"g">> [] c = "H" -> <<"h">> [] c = "I" -> <<"i">>
      [] c = "J" -> <<"j">> [] c = "K" -> <<"k">> [] c = "L" -> <<"l">>
      [] c = "M" -> <<"m">> [] c = "N" -> <<"n">> [] c = "O" -> <<"o">>
      [] c = "P" -> <<"p">> [] c = "Q" -> <<"q">> [] c = "R" -> <<"r">>
      [] c = "S" -> <<"s">> [] c = "T" -> <<"t">> [] c = "U" -> <<"u">>
      [] c = "V" -> <<"v">> [] c = "W" -> <<"w">> [] c = "X" -> <<"x">>
      [] c = "Y" -> <<"y">> [] c = "Z" -> <<"z">>
      [] c = "KELVIN SIGN" -> <<"k">>
      [] c = "LATIN CAPITAL LETTER I WITH DOT ABOVE" ->
            <<"i", "COMBINING DOT ABOVE">>
      [] c = "LATIN CAPITAL LETTER A WITH DIAERESIS" ->
            <<"LATIN SMALL LETTER A WITH DIAERESIS">>
      [] c = "LATIN CAPITAL LETTER O WITH DIAERESIS" ->
            <<"LATIN SMALL LETTER O WITH DIAERESIS">>
      [] c = "LATIN CAPITAL LETTER U WITH DIAERESIS" ->
            <<"LATIN SMALL LETTER U WITH DIAERESIS">>
      [] c = "LATIN CAPITAL LETTER E WITH ACUTE" ->
            <<"LATIN SMALL LETTER E WITH ACUTE">>
      [] c = "GREEK CAPITAL LETTER ALPHA" -> <<"GREEK SMALL LETTER ALPHA">>
      [] c = "GREEK CAPITAL LETTER SIGMA" -> <<"GREEK SMALL LETTER SIGMA">>
      [] OTHER -> <<c>>

\* The cased characters among those above
CasedChars ==
    {"A", "B", "C", "D", "E", "F", "G", "H", "I", "J", "K", "L", "M", "N",
     "O", "P", "Q", "R", "S", "T", "U", "V", "W", "X", "Y", "Z",
     "a", "b", "c", "d", "e", "f", "g", "h", "i", "j", "k", "l", "m", "n",
     "o", "p", "q", "r", "s", "t", "u", "v", "w", "x", "y", "z",
     "KELVIN SIGN", "LATIN CAPITAL LETTER I WITH DOT ABOVE",
     "LATIN CAPITAL LETTER A WITH DIAERESIS",
     "LATIN SMALL LETTER A WITH DIAERESIS",
     "LATIN CAPITAL LETTER O WITH DIAERESIS",
     "LATIN SMALL LETTER O WITH DIAERESIS",
     "LATIN CAPITAL LETTER U WITH DIAERESIS",
     "LATIN SMALL LETTER U WITH DIAERESIS",
     "LATIN CAPITAL LETTER E WITH ACUTE", "LATIN SMALL LETTER E WITH ACUTE",
     "GREEK CAPITAL LETTER ALPHA", "GREEK SMALL LETTER ALPHA",
     "GREEK CAPITAL LETTER SIGMA", "GREEK SMALL LETTER SIGMA",
     "GREEK SMALL LETTER FINAL SIGMA"}

\* The characters str.lower() looks through when it decides on a final
\* sigma: the ASCII ones and, standing for the others, some of Latin-1 and
\* a combining mark
CaseIgnorableChars ==
    {"'", ".", ":", "^", "GRAVE ACCENT", "DIAERESIS", "SOFT HYPHEN", "MACRON",
     "ACUTE ACCENT", "MIDDLE DOT", "CEDILLA", "COMBINING DOT ABOVE"}

\* str.lower() on a capital sigma at index i: it becomes a final sigma when
\* the nearest character before it that is not looked through is cased and
\* the nearest such character after it, if any, is not
FinalSigma(t, i) ==
    LET before == {j \in 1 .. i - 1 : t[j] \notin CaseIgnorableChars}
        after == {j \in i + 1 .. Len(t) : t[j] \notin CaseIgnorableChars}
    IN /\ before # {}
       /\ t[CHOOSE j \in before : \A k \in before : k <= j] \in CasedChars
       /\ \/ after = {}
          \/ t[CHOOSE j \in after : \A k \in after : j <= k] \notin CasedChars

RECURSIVE LowerFrom(_, _)
LowerFrom(t, i) ==
    IF i > Len(t) THEN <<>>
    ELSE (IF t[i] = "GREEK CAPITAL LETTER SIGMA" /\ FinalSigma(t, i)
          THEN <<"GREEK SMALL LETTER FINAL SIGMA">>
          ELSE LowerChar(t[i]))
         \o LowerFrom(t, i + 1)

\* str.lower()
LowerText(t) == LowerFrom(t, 1)

\* str.endswith(suffix)
EndsWith(t, suffix) ==
    /\ Len(t) >= Len(suffix)
    /\ SubSeq(t, Len(t) - Len(suffix) + 1, Len(t)) = suffix

\* event.src_path.lower().endswith('.pdf')
EndsWithPdf(path) == EndsWith(LowerText(path), <<".", "p", "d", "f">>)

PdfPaths == {p \in Paths : EndsWithPdf(p)}

\* The threads that deliver events to the handler
EventThreads == {"e1", "e2"}


\* __init__: empty set and queue, and the worker thread started
InitHandler ==
    /\ processed_files = {}
    /\ processing_queue = <<>>
    /\ worker_pc = "get"
    /\ file_path = <<>>
    /\ timers = <<>>
    /\ handler_calls = <<>>
    /\ call_raised = <<>>
    /\ epoch_calls = [p \in Paths |-> 0]
    /\ events_seen = <<>>
    /\ event_pc = [t \in EventThreads |-> "idle"]
    /\ event_path = [t \in EventThreads |-> <<>>]
    /\ ReconcileIdle
    /\ ParseIdle
    /\ ExtractIdle
    /\ AutoIdle
    /\ NotifyIdle
    /\ TableIdle
    /\ PriceIdle

\* _handle_pdf entered by thread t: the test of line 40
handle_pdf(t, path) ==
    IF path \notin processed_files
    THEN /\ event_pc' = [event_pc EXCEPT ![t] = "put"]
         /\ event_path' = [event_path EXCEPT ![t] = path]
    ELSE UNCHANGED <<event_pc, event_path>>

\* on_created (lines 26-30), up to the test of line 40
on_created ==
    \E t \in EventThreads, path \in Paths, is_directory \in BOOLEAN :
        /\ worker_pc # "none"
        /\ event_pc[t] = "idle"
        /\ Len(events_seen) < MaxEvents
        /\ events_seen' = Append(events_seen, "created")
        /\ IF ~is_directory /\ EndsWithPdf(path)
           THEN handle_pdf(t, path)
           ELSE UNCHANGED <<event_pc, event_path>>
        /\ UNCHANGED <<processed_files, processing_queue, worker_pc,
                       file_path, timers, handler_calls, call_raised,
                       epoch_calls>>
        /\ UNCHANGED OutsideHandler

\* on_modified (lines 32-36), up to the test of line 40
on_modified ==
    \E t \in EventThreads, path \in Paths, is_directory \in BOOLEAN :
        /\ worker_pc # "none"
        /\ event_pc[t] = "idle"
        /\ Len(events_seen) < MaxEvents
        /\ events_seen' = Append(events_seen, "modified")
        /\ IF ~is_directory /\ EndsWithPdf(path)
           THEN handle_pdf(t, path)
           ELSE UNCHANGED <<event_pc, event_path>>
        /\ UNCHANGED <<processed_files, processing_queue, worker_pc,
                       file_path, timers, handler_calls, call_raised,
                       epoch_calls>>
        /\ UNCHANGED OutsideHandler

\* Line 41: self.processing_queue.put(file_path)
HandlePut(t) ==
    /\ event_pc[t] = "put"
    /\ processing_queue' = Append(processing_queue, event_path[t])
    /\ event_pc' = [event_pc EXCEPT ![t] = "add"]
    /\ UNCHANGED <<processed_files, worker_pc, file_path, timers,
                   handler_calls, call_raised, epoch_calls, events_seen,
                   event_path>>
    /\ UNCHANGED OutsideHandler

\* Line 42: self.processed_files.add(file_path), and _handle_pdf returns
HandleAdd(t) ==
    /\ event_pc[t] = "add"
    /\ processed_files' = processed_files \cup {event_path[t]}
    /\ event_pc' = [event_pc EXCEPT ![t] = "idle"]
    /\ event_path' = [event_path EXCEPT ![t] = <<>>]
    /\ UNCHANGED <<processing_queue, worker_pc, file_path, timers,
                   handler_calls, call_raised, epoch_calls, events_seen>>
    /\ UNCHANGED OutsideHandler

\* Line 50, an entry is available: file_path = self.processing_queue.get()
WorkerGet ==
    /\ worker_pc = "get"
    /\ processing_queue # <<>>
    /\ file_path' = <<Head(processing_queue)>>
    /\ processing_queue' = Tail(processing_queue)
    /\ worker_pc' = "callback"
    /\ UNCHANGED <<processed_files, timers, handler_calls, call_raised,
                   epoch_calls, events_seen, event_pc, event_path>>
    /\ UNCHANGED OutsideHandler

\* Line 50, the queue stays empty for the timeout: get raises queue.Empty.
\* Matching the handler of line 69 evaluates Queue.Empty, an attribute the
\* class queue.Queue does not have: AttributeError is raised out of the
\* try statement and out of the loop, and the thread ends.
AfterTimeout == "dead"

WorkerTimeout ==
    /\ worker_pc = "get"
    /\ processing_queue = <<>>
    /\ worker_pc' = AfterTimeout
    /\ UNCHANGED <<processed_files, processing_queue, file_path, timers,
                   handler_calls, call_raised, epoch_calls, events_seen,
                   event_pc, event_path>>
    /\ UNCHANGED OutsideHandler

\* The statement after a callback that raised an Exception: line 59
\* catches it and the loop body goes on with the Timer.
AfterCallbackError == "timer"

\* Lines 53-60: sleep, then the callback is invoked; it returns or raises
WorkerCallback ==
    \E raises \in BOOLEAN :
        /\ worker_pc = "callback"
        /\ handler_calls' = Append(handler_calls, file_path[1])
        /\ call_raised' = Append(call_raised, raises)
        /\ epoch_calls' = [epoch_calls EXCEPT ![file_path[1]] = @ + 1]
        /\ worker_pc' = IF raises THEN AfterCallbackError ELSE "timer"
        /\ UNCHANGED <<processed_files, processing_queue, file_path, timers,
                       events_seen, event_pc, event_path>>
        /\ UNCHANGED OutsideHandler

\* Lines 63-67: threading.Timer(300, discard, args=[file_path]).start()
WorkerStartTimer ==
    /\ worker_pc = "timer"
    /\ timers' = Append(timers, file_path[1])
    /\ file_path' = <<>>
    /\ worker_pc' = "get"
    /\ UNCHANGED <<processed_files, processing_queue, handler_calls,
                   call_raised, epoch_calls, events_seen, event_pc,
                   event_path>>
    /\ UNCHANGED OutsideHandler

\* A Timer fires after 300 seconds: self.processed_files.discard(f)
TimerFire ==
    \E i \in 1 .. Len(timers) :
        /\ processed_files' = processed_files \ {timers[i]}
        /\ timers' = [j \in 1 .. Len(timers) - 1 |->
                          IF j < i THEN timers[j] ELSE timers[j + 1]]
        /\ epoch_calls' = IF timers[i] \in processed_files
                          THEN [epoch_calls EXCEPT ![timers[i]] = 0]
                          ELSE epoch_calls
        /\ UNCHANGED <<processing_queue, worker_pc, file_path, handler_calls,
                       call_raised, events_seen, event_pc, event_path>>
        /\ UNCHANGED OutsideHandler

NextHandler ==
    \/ on_created
    \/ on_modified
    \/ \E t \in EventThreads : HandlePut(t)
    \/ \E t \in EventThreads : HandleAdd(t)
    \/ WorkerGet
    \/ WorkerTimeout
    \/ WorkerCallback
    \/ WorkerStartTimer
    \/ TimerFire

SpecHandler == InitHandler /\ [][NextHandler]_vars

\* The worker thread, the Timer threads and a delivering thread inside
\* _handle_pdf are scheduled; events need not arrive.
FairHandler ==
    /\ WF_vars(WorkerGet)
    /\ WF_vars(WorkerTimeout)
    /\ WF_vars(WorkerCallback)
    /\ WF_vars(WorkerStartTimer)
    /\ WF_vars(TimerFire)
    /\ \A t \in EventThreads : WF_vars(HandlePut(t)) /\ WF_vars(HandleAdd(t))

FairSpecHandler == SpecHandler /\ FairHandler

\* Reference: number of callback invocations with the path so far
RECURSIVE CountOf(_, _)
CountOf(seq, x) ==
    IF seq = <<>> THEN 0
    ELSE (IF Head(seq) = x THEN 1 ELSE 0) + CountOf(Tail(seq), x)

\* Reference: the path was accepted by _handle_pdf and has not yet been
\* passed to the callback.
Awaiting(path) ==
    \/ \E t \in EventThreads : event_pc[t] = "put" /\ event_path[t] = path
    \/ \E i \in 1 .. Len(processing_queue) : processing_queue[i] = path
    \/ worker_pc = "callback" /\ file_path = <<path>>

\* C17: every created or modified event for a non-directory .pdf path that
\* is not in processed_files, whenever it is delivered (also after the
\* queue has been empty for longer than the get timeout), eventually leads
\* to the callback being invoked with that path.
C17_EventLeadsToCallback ==
    \A path \in PdfPaths, n \in 0 .. MaxEvents :
        (Awaiting(path) /\ CountOf(handler_calls, path) = n)
            ~> (CountOf(handler_calls, path) > n)

\* C18: the events for one .pdf path that arrive before the path is
\* discarded from processed_files cause exactly one callback invocation
\* with that path (never a second one, and the one eventually), and events
\* for directories or for paths not ending in .pdf cause none.
C18_DuplicatesCollapsed ==
    /\ [](\A path \in Paths : epoch_calls[path] <= 1)
    /\ [](\A i \in 1 .. Len(handler_calls) : handler_calls[i] \in PdfPaths)
    /\ \A path \in PdfPaths :
          (path \in processed_files /\ epoch_calls[path] = 0)
              ~> (epoch_calls[path] = 1)

\* Reference: this step is a callback invocation that raises
CallbackRaises ==
    /\ Len(handler_calls') = Len(handler_calls) + 1
    /\ call_raised'[Len(call_raised')]

\* C28: a callback failure is contained in the worker: when the callback
\* raises for a queued path the worker goes on with its loop, the path
\* stays in processed_files, and the paths queued afterwards are
\* eventually passed to the callback.
C28_CallbackFailureContained ==
    /\ [][CallbackRaises =>
            /\ worker_pc' = "timer"
            /\ processed_files' = processed_files]_vars
    /\ \A path \in PdfPaths, n \in 0 .. MaxEvents :
          (/\ \E i \in 1 .. Len(call_raised) : call_raised[i]
           /\ Awaiting(path)
           /\ CountOf(handler_calls, path) = n)
              ~> (CountOf(handler_calls, path) > n)

----------------------------------------------------------------------------
(* AutoProcessor (file_monitor.py:152-214)                                 *)
(*                                                                         *)
(* pending_offers is a dict, modelled as the sequence of its entries       *)
(* [path, timestamp] in insertion order.  Time is counted in hours.        *)
(* time.sleep(3600) never returns early and the statements around it take  *)
(* time as well, so from one reading of datetime.now() by the cleanup      *)
(* thread to the next more than an hour passes: a reading is [clock,       *)
(* drift], the hours passed and the number of sleeps that have returned,   *)
(* each of which adds an overrun that is small against an hour.  The hour  *)
(* of a sleep passes in one step (time_passes), so a call made during the  *)
(* sleep falls before or after it.  datetime.now() is the naive local     *)
(* time: it is the time passed plus the UTC offset, which changes by an    *)
(* hour or two when daylight saving time begins or ends.  The              *)
(* three critical sections run under processing_lock; SpecAuto takes each  *)
(* as one step, SpecLock follows the threads through the lock.             *)

\* Number of handle_offer / handle_invoice calls
MaxOps == 3
\* Hours the cleanup thread is followed for
MaxClock == 26
\* Number of handle_offer calls followed up to their expiry
MaxOffers == 2

\* timedelta(hours=24) of line 200
ExpiryHours == 24
\* time.sleep(3600) of line 207
SleepHours == 1

\* The time passed since construction
Elapsed == [clock |-> clock, drift |-> drift]

\* datetime.now(): the naive local time, which moves with the UTC offset
\* of the local time zone
Now == [clock |-> clock + utc_offset, drift |-> drift]

\* Hours the local clock is set forward or back by at most
MaxOffsetShift == 2

\* The changes of the local clock followed, in whole hours: daylight saving
\* time of one or two hours begins or ends, or the time zone of the process
\* changes, once in the hours followed
OffsetShifts == (-MaxOffsetShift .. MaxOffsetShift) \ {0}

\* later - earlier > timedelta(hours = hours), for two readings of now()
MoreThanHoursApart(later, earlier, hours) ==
    \/ later.clock - earlier.clock > hours
    \/ /\ later.clock - earlier.clock = hours
       /\ later.drift > earlier.drift

OfferPaths == {"o1.pdf", "o2.pdf"}
InvoicePaths == {"i1.pdf", "i2.pdf"}

\* self.comparison_callback(offer_path, [invoice_path])
CallbackArgs(offer_path, invoice_path) ==
    [offer_path |-> offer_path, invoice_paths |-> <<invoice_path>>]

\* The thread that delivers offers, the thread that delivers invoices
\* (the two PDFEventHandler workers) and the cleanup thread of line 213
Threads == {"offer", "invoice", "cleanup"}

\* __init__ (lines 163-169): the cleanup thread is started and stands
\* before its first pass
InitAuto ==
    /\ pending_offers = <<>>
    /\ comparison_calls = <<>>
    /\ clock = 0
    /\ drift = 0
    /\ slept = 0
    /\ utc_offset = 0
    /\ registered = [p \in OfferPaths |-> <<>>]
    /\ history = <<>>
    /\ thread_pc = [t \in Threads |->
                       IF t = "cleanup" THEN "waiting" ELSE "idle"]
    /\ thread_arg = [t \in Threads |-> ""]
    /\ lock_holder = "none"
    /\ ReconcileIdle
    /\ ParseIdle
    /\ ExtractIdle
    /\ HandlerIdle
    /\ NotifyIdle
    /\ TableIdle
    /\ PriceIdle

\* dict assignment d[path] = timestamp: a present key keeps its position
DictSet(dict, path, timestamp) ==
    IF \E j \in 1 .. Len(dict) : dict[j].path = path
    THEN [j \in 1 .. Len(dict) |->
             IF dict[j].path = path
             THEN [path |-> path, timestamp |-> timestamp]
             ELSE dict[j]]
    ELSE Append(dict, [path |-> path, timestamp |-> timestamp])

\* handle_offer (lines 171-174), followed for max_calls calls
HandleOffer(max_calls) ==
    \E offer_path \in OfferPaths :
        /\ Len(history) < max_calls
        /\ pending_offers' = DictSet(pending_offers, offer_path, Now)
        /\ registered' = [registered EXCEPT ![offer_path] = <<Elapsed>>]
        /\ history' = Append(history, [op |-> "offer", path |-> offer_path])
        /\ UNCHANGED <<comparison_calls, clock, drift, slept, utc_offset>>
        /\ UNCHANGED <<thread_pc, thread_arg, lock_holder>>
        /\ UNCHANGED OutsideAuto

handle_offer == HandleOffer(MaxOps)

\* The loop of lines 183-188 with only the newest pending offer compared.
InvoiceLoop_NewestOnly(current_offers, invoice_path) ==
    IF current_offers = <<>> THEN <<>>
    ELSE <<CallbackArgs(current_offers[Len(current_offers)].path,
                        invoice_path)>>

\* The loop of lines 183-188: the callback invocations it makes, in order;
\* what the callback raises is caught and the loop goes on
InvoiceLoop(current_offers, invoice_path) ==
    [j \in 1 .. Len(current_offers) |->
        CallbackArgs(current_offers[j].path, invoice_path)]

\* handle_invoice (lines 176-188)
handle_invoice ==
    \E invoice_path \in InvoicePaths :
        /\ Len(history) < MaxOps
        /\ comparison_calls' =
              comparison_calls \o InvoiceLoop(pending_offers, invoice_path)
        /\ history' = Append(history, [op |-> "invoice", path |-> invoice_path])
        /\ UNCHANGED <<pending_offers, clock, drift, slept>>
        /\ UNCHANGED <<thread_pc, thread_arg, lock_holder>>
        /\ UNCHANGED <<utc_offset, registered>>
        /\ UNCHANGED OutsideAuto

\* Lines 198-203: the entries left when the expired offers are deleted
RECURSIVE Unexpired(_, _)
Unexpired(dict, current_time) ==
    IF dict = <<>> THEN <<>>
    ELSE (IF MoreThanHoursApart(current_time, Head(dict).timestamp,
                                ExpiryHours)
          THEN <<>> ELSE <<Head(dict)>>)
         \o Unexpired(Tail(dict), current_time)

\* One pass of cleanup_pending (lines 195-204): the expired offers are
\* deleted, then the thread goes to sleep
cleanup_pending ==
    /\ thread_pc["cleanup"] = "waiting"
    /\ pending_offers' = Unexpired(pending_offers, Now)
    /\ thread_pc' = [thread_pc EXCEPT !["cleanup"] = "sleep"]
    /\ slept' = 0
    /\ UNCHANGED <<comparison_calls, clock, drift, history, thread_arg,
                   lock_holder>>
    /\ registered' = [p \in OfferPaths |->
                        IF \E j \in 1 .. Len(pending_offers') :
                               pending_offers'[j].path = p
                        THEN registered[p] ELSE <<>>]
    /\ UNCHANGED utc_offset
    /\ UNCHANGED OutsideAuto

\* The hour of the cleanup thread's sleep passes (line 207); the thread is
\* followed for max_hours
TimePasses(max_hours) ==
    /\ thread_pc["cleanup"] = "sleep"
    /\ slept < SleepHours
    /\ clock + SleepHours <= max_hours
    /\ clock' = clock + SleepHours
    /\ slept' = slept + SleepHours
    /\ UNCHANGED <<pending_offers, comparison_calls, drift, history,
                   thread_pc, thread_arg, lock_holder>>
    /\ UNCHANGED <<utc_offset, registered>>
    /\ UNCHANGED OutsideAuto

time_passes == TimePasses(MaxClock)

\* Daylight saving time begins or ends: the local clock that
\* datetime.now() reads (lines 174, 196) is set forward or back
offset_changes ==
    \E shift \in OffsetShifts :
        /\ utc_offset = 0
        /\ utc_offset' = shift
        /\ UNCHANGED <<pending_offers, comparison_calls, clock, drift, slept,
                       registered, history, thread_pc, thread_arg,
                       lock_holder>>
        /\ UNCHANGED OutsideAuto

\* time.sleep(3600) of line 207 returns, a little more than an hour after
\* it was called, and the loop starts over
cleanup_sleep ==
    /\ thread_pc["cleanup"] = "sleep"
    /\ slept = SleepHours
    /\ drift' = drift + 1
    /\ thread_pc' = [thread_pc EXCEPT !["cleanup"] = "waiting"]
    /\ UNCHANGED <<pending_offers, comparison_calls, clock, slept, history,
                   thread_arg, lock_holder>>
    /\ UNCHANGED <<utc_offset, registered>>
    /\ UNCHANGED OutsideAuto

\* The calls and the cleanup thread over a period in which the local UTC
\* offset stays as it is; a change of the offset moves only the hour at
\* which a pass deletes an offer and is followed in SpecExpiry and SpecLock
NextAuto ==
    \/ handle_offer
    \/ handle_invoice
    \/ cleanup_pending
    \/ time_passes
    \/ cleanup_sleep

SpecAuto == InitAuto /\ [][NextAuto]_vars

\* Reference: the offer paths that are pending
PendingPaths == {pending_offers[j].path : j \in 1 .. Len(pending_offers)}

\* Reference: the invocations a step adds to comparison_calls
NewCalls ==
    SubSeq(comparison_calls', Len(comparison_calls) + 1,
           Len(comparison_calls'))

\* Reference: this step is the call handle_invoice(invoice_path)
IsHandleInvoice(invoice_path) ==
    history' = Append(history, [op |-> "invoice", path |-> invoice_path])

\* Reference: the calls so far are handle_offer(o), then only handle_invoice
OneOfferThenInvoices ==
    /\ history # <<>>
    /\ history[1].op = "offer"
    /\ \A k \in 2 .. Len(history) : history[k].op = "invoice"

\* C19: handle_invoice(i) invokes comparison_callback exactly once, with
\* (offer_path, [i]), for each offer pending at that moment and for no other
\* offer, and leaves the offers pending; so after handle_offer(o) and then n
\* handle_invoice calls, with o still pending, the callback was invoked
\* exactly n times, once per invoice.
C19_OneCallPerPendingOffer ==
    /\ [][\A invoice_path \in InvoicePaths :
            IsHandleInvoice(invoice_path) =>
                /\ pending_offers' = pending_offers
                /\ SubSeq(comparison_calls', 1, Len(comparison_calls))
                      = comparison_calls
                /\ Len(NewCalls) = Len(pending_offers)
                /\ \A offer_path \in PendingPaths :
                      CountOf(NewCalls,
                              CallbackArgs(offer_path, invoice_path)) = 1]_vars
    /\ []((OneOfferThenInvoices /\ pending_offers # <<>>) =>
            comparison_calls =
                [k \in 1 .. Len(history) - 1 |->
                    CallbackArgs(history[1].path, history[k + 1].path)])

\* C19 witness: two offers are pending and an invoice has just been
\* handled, so the callback was invoked once for each of them.
C19_Witness ==
    /\ Len(pending_offers) = 2
    /\ Len(history) = 3 /\ history[3].op = "invoice"
    /\ comparison_calls =
          <<CallbackArgs(pending_offers[1].path, history[3].path),
            CallbackArgs(pending_offers[2].path, history[3].path)>>

\* The offers and the cleanup thread on their own: handle_invoice only
\* reads pending_offers and is left out
offer_arrives == HandleOffer(MaxOffers)

NextExpiry ==
    \/ offer_arrives
    \/ cleanup_pending
    \/ time_passes
    \/ cleanup_sleep
    \/ offset_changes

SpecExpiry == InitAuto /\ [][NextExpiry]_vars

\* The cleanup thread runs for as long as the process does: time passes,
\* the sleep returns, and whenever the thread stands before a pass, the
\* pass is made
FairExpiry ==
    /\ WF_vars(cleanup_pending)
    /\ WF_vars(time_passes)
    /\ WF_vars(cleanup_sleep)

FairSpecExpiry == SpecExpiry /\ FairExpiry

\* Reference: offer_path is pending and more than 24 hours have passed
\* since handle_offer last stored it
ExpiredPending(offer_path) ==
    /\ offer_path \in PendingPaths
    /\ MoreThanHoursApart(Elapsed, registered[offer_path][1], ExpiryHours)

\* Reference: this step is the call handle_offer(offer_path)
IsHandleOffer(offer_path) ==
    history' = Append(history, [op |-> "offer", path |-> offer_path])

\* C30: an offer just registered with handle_offer is pending; a pending
\* offer registered at most 24 hours ago is not removed by any step; and a
\* pending offer registered more than 24 hours ago is eventually removed
\* (or registered anew), as long as the cleanup thread is followed for
\* the hours the local clock may have been set back by.
C30_PendingOffersExpire ==
    /\ [][\A offer_path \in OfferPaths :
            IsHandleOffer(offer_path) =>
                \E j \in 1 .. Len(pending_offers') :
                    pending_offers'[j].path = offer_path]_vars
    /\ [][\A offer_path \in PendingPaths :
            ~MoreThanHoursApart(Elapsed, registered[offer_path][1],
                                ExpiryHours) =>
                \E k \in 1 .. Len(pending_offers') :
                    pending_offers'[k].path = offer_path]_vars
    /\ \A offer_path \in OfferPaths :
          (ExpiredPending(offer_path) /\ clock + MaxOffsetShift <= MaxClock)
              ~> ~ExpiredPending(offer_path)

----------------------------------------------------------------------------
(* AutoProcessor, the threads followed through processing_lock             *)
(* (file_monitor.py:166, 173, 178, 195)                                    *)
(*                                                                         *)
(* A call of handle_offer or handle_invoice and a pass of cleanup_pending  *)
(* each reach their `with self.processing_lock`, acquire the lock, run the *)
(* body and release the lock on leaving the with block.  The body is one   *)
(* step.  The body of handle_invoice calls comparison_callback, the         *)
(* caller's code, while it holds the lock (line 185): when the callback     *)
(* returns or raises an Exception (line 187 catches it) the body reaches    *)
(* the end of the block, and for as long as it does neither the thread      *)
(* stays inside.                                                            *)

\* Number of handle_offer / handle_invoice calls followed through the lock
MaxLockOps == 2
\* Hours the cleanup thread is followed for through the lock
MaxLockClock == 1

\* Entering the with block without waiting for the lock.
CanAcquire_NoWait == TRUE

\* threading.Lock.acquire (entry of the with blocks): it returns only when
\* no thread holds the lock
CanAcquire == lock_holder = "none"

\* The delivering threads that are inside a call
InFlight == {t \in {"offer", "invoice"} : thread_pc[t] # "idle"}

\* handle_offer is called (line 171) and reaches line 173
CallHandleOffer ==
    \E offer_path \in OfferPaths :
        /\ thread_pc["offer"] = "idle"
        /\ Len(history) + Cardinality(InFlight) < MaxLockOps
        /\ thread_pc' = [thread_pc EXCEPT !["offer"] = "waiting"]
        /\ thread_arg' = [thread_arg EXCEPT !["offer"] = offer_path]
        /\ UNCHANGED <<pending_offers, comparison_calls, clock, drift, slept,
                       history, lock_holder>>
        /\ UNCHANGED <<utc_offset, registered>>
        /\ UNCHANGED OutsideAuto

\* handle_invoice is called (line 176) and reaches line 178
CallHandleInvoice ==
    \E invoice_path \in InvoicePaths :
        /\ thread_pc["invoice"] = "idle"
        /\ Len(history) + Cardinality(InFlight) < MaxLockOps
        /\ thread_pc' = [thread_pc EXCEPT !["invoice"] = "waiting"]
        /\ thread_arg' = [thread_arg EXCEPT !["invoice"] = invoice_path]
        /\ UNCHANGED <<pending_offers, comparison_calls, clock, drift, slept,
                       history, lock_holder>>
        /\ UNCHANGED <<utc_offset, registered>>
        /\ UNCHANGED OutsideAuto

\* Thread t enters its with block (lines 173, 178, 195)
Acquire(t) ==
    /\ thread_pc[t] = "waiting"
    /\ CanAcquire
    /\ thread_pc' = [thread_pc EXCEPT ![t] = "inside"]
    /\ lock_holder' = t
    /\ UNCHANGED <<pending_offers, comparison_calls, clock, drift, slept,
                   history, thread_arg>>
    /\ UNCHANGED <<utc_offset, registered>>
    /\ UNCHANGED OutsideAuto

\* The body of handle_offer (line 174) and the end of its with block
OfferSection ==
    /\ thread_pc["offer"] = "inside"
    /\ pending_offers' = DictSet(pending_offers, thread_arg["offer"], Now)
    /\ history' = Append(history,
                         [op |-> "offer", path |-> thread_arg["offer"]])
    /\ lock_holder' = "none"
    /\ thread_pc' = [thread_pc EXCEPT !["offer"] = "idle"]
    /\ thread_arg' = [thread_arg EXCEPT !["offer"] = ""]
    /\ registered' = [registered EXCEPT ![thread_arg["offer"]] = <<Elapsed>>]
    /\ UNCHANGED <<comparison_calls, clock, drift, slept, utc_offset>>
    /\ UNCHANGED OutsideAuto

\* The body of handle_invoice (lines 180-188) and the end of its with block
InvoiceSection ==
    /\ thread_pc["invoice"] = "inside"
    /\ comparison_calls' =
          comparison_calls \o InvoiceLoop(pending_offers,
                                          thread_arg["invoice"])
    /\ history' = Append(history,
                         [op |-> "invoice", path |-> thread_arg["invoice"]])
    /\ lock_holder' = "none"
    /\ thread_pc' = [thread_pc EXCEPT !["invoice"] = "idle"]
    /\ thread_arg' = [thread_arg EXCEPT !["invoice"] = ""]
    /\ UNCHANGED <<pending_offers, clock, drift, slept>>
    /\ UNCHANGED <<utc_offset, registered>>
    /\ UNCHANGED OutsideAuto

\* The body of a cleanup pass (lines 196-204) and the end of its with block
CleanupSection ==
    /\ thread_pc["cleanup"] = "inside"
    /\ pending_offers' = Unexpired(pending_offers, Now)
    /\ lock_holder' = "none"
    /\ thread_pc' = [thread_pc EXCEPT !["cleanup"] = "sleep"]
    /\ slept' = 0
    /\ UNCHANGED <<comparison_calls, clock, drift, history, thread_arg>>
    /\ registered' = [p \in OfferPaths |->
                        IF \E j \in 1 .. Len(pending_offers') :
                               pending_offers'[j].path = p
                        THEN registered[p] ELSE <<>>]
    /\ UNCHANGED utc_offset
    /\ UNCHANGED OutsideAuto

LockTimePasses == TimePasses(MaxLockClock)

NextLock ==
    \/ CallHandleOffer
    \/ CallHandleInvoice
    \/ \E t \in Threads : Acquire(t)
    \/ OfferSection
    \/ InvoiceSection
    \/ CleanupSection
    \/ LockTimePasses
    \/ cleanup_sleep
    \/ offset_changes

SpecLock == InitAuto /\ [][NextLock]_vars

\* The bodies of handle_offer and of a cleanup pass are straight-line code
\* and run on to the end of their block; a thread blocked in acquire gets
\* the lock when the lock stays free.  threading.Lock does not say which of
\* several waiting threads gets a released lock, and nothing makes
\* comparison_callback return, so neither the turn of a waiting thread nor
\* the end of the body of handle_invoice is assumed
FairLock ==
    /\ WF_vars(OfferSection)
    /\ WF_vars(CleanupSection)
    /\ \A t \in Threads : WF_vars(Acquire(t))

FairSpecLock == SpecLock /\ FairLock

\* Reference: the threads inside a with block
Inside == {t \in Threads : thread_pc[t] = "inside"}

\* Reference: this step reads or changes pending_offers (every section body
\* does; it is the step that leaves the with block)
AccessesPending ==
    \/ pending_offers' # pending_offers
    \/ comparison_calls' # comparison_calls
    \/ history' # history
    \/ thread_pc["cleanup"] = "inside" /\ thread_pc'["cleanup"] # "inside"

----------------------------------------------------------------------------
(* SlackNotifier._should_send_notification (notifier.py:86-110)            *)
(*                                                                         *)
(* Differences and thresholds are integers, as the Decimals above.         *)

\* Values of price_threshold and quantity_threshold
Thresholds == {0, 1, 5}
\* Values of total_quantity_difference and total_price_difference
Differences == {0, 3, 4, 6}

\* NotificationConfig (lines 9-19), the fields the decision reads
Configs ==
    [notify_price_discrepancies : BOOLEAN,
     notify_quantity_mismatches : BOOLEAN,
     notify_missing_items : BOOLEAN,
     notify_successful_comparisons : BOOLEAN,
     price_threshold : Thresholds,
     quantity_threshold : Thresholds]

\* Summaries as generate_summary counts them: every item has one status
Summaries ==
    {[total_items |-> m + q + p + x,
      matches |-> m,
      quantity_mismatches |-> q,
      price_mismatches |-> p,
      missing_items |-> x,
      extra_items |-> 0,
      total_quantity_difference |-> dq,
      total_price_difference |-> dp] :
        m \in {0, 3}, q \in {0, 1}, p \in {0, 1}, x \in {0, 1},
        dq \in Differences, dp \in Differences}

\* Lines 86-110
should_send_notification(cfg, s) ==
    IF cfg.notify_missing_items /\ s.missing_items > 0 THEN TRUE
    ELSE IF /\ cfg.notify_quantity_mismatches
            /\ s.quantity_mismatches > 0
            /\ s.total_quantity_difference >= cfg.quantity_threshold
    THEN TRUE
    ELSE IF /\ cfg.notify_price_discrepancies
            /\ s.price_mismatches > 0
            /\ s.total_price_difference >= cfg.price_threshold
    THEN TRUE
    ELSE IF /\ cfg.notify_successful_comparisons
            /\ s.matches = s.total_items
    THEN TRUE
    ELSE FALSE

InitNotify ==
    /\ config \in Configs
    /\ nf_summary \in Summaries
    /\ nf_result = <<>>
    /\ ReconcileIdle
    /\ ParseIdle
    /\ ExtractIdle
    /\ HandlerIdle
    /\ AutoIdle
    /\ TableIdle
    /\ PriceIdle

\* nf_result = self._should_send_notification(summary)
ShouldSend ==
    /\ nf_result = <<>>
    /\ nf_result' = <<should_send_notification(config, nf_summary)>>
    /\ UNCHANGED <<config, nf_summary>>
    /\ UNCHANGED OutsideNotify

NextNotify == ShouldSend

SpecNotify == InitNotify /\ [][NextNotify]_vars

\* C20: with notification of quantity and price discrepancies enabled, the
\* decision is False when total_quantity_difference is below
\* quantity_threshold and total_price_difference is below price_threshold,
\* and True for a summary with mismatches whose totals are at or above the
\* thresholds.
C20_ThresholdsDecide ==
    (/\ nf_result # <<>>
     /\ config.notify_quantity_mismatches
     /\ config.notify_price_discrepancies) =>
        /\ (/\ nf_summary.total_quantity_difference < config.quantity_threshold
            /\ nf_summary.total_price_difference < config.price_threshold)
              => nf_result[1] = FALSE
        /\ (/\ nf_summary.quantity_mismatches + nf_summary.price_mismatches > 0
            /\ nf_summary.total_quantity_difference >= config.quantity_threshold
            /\ nf_summary.total_price_difference >= config.price_threshold)
              => nf_result[1] = TRUE

----------------------------------------------------------------------------
(* _process_table, _identify_columns, _parse_row (pdf_processor.py:60-131) *)
(*                                                                         *)
(* A cell is [none, text] as the argument of _parse_decimal: None, or a    *)
(* string given by its characters.  A dict from role names to column       *)
(* indices is a function whose domain is the set of its keys.  The Items   *)
(* built here carry their strings as character sequences and their         *)
(* Decimals as [coef, places].                                             *)

\* Number of data rows of a table
MaxRows == 1

Str(t) == [none |-> FALSE, text |-> t]

\* str(cell)
StrOf(cell) == IF cell.none THEN <<"N", "o", "n", "e">> ELSE cell.text

\* x in text, for strings
IsSubstring(x, t) ==
    \E i \in 0 .. Len(t) - Len(x) : SubSeq(t, i + 1, i + Len(x)) = x

\* The characters str.strip() removes (those str.isspace() holds for);
\* the ones TLA+ has no escape for are written by name
Whitespace ==
    {" ", "\t", "\n", "\r", "\f", "LINE TABULATION",
     "INFORMATION SEPARATOR FOUR", "INFORMATION SEPARATOR THREE",
     "INFORMATION SEPARATOR TWO", "INFORMATION SEPARATOR ONE",
     "NEXT LINE", "NO-BREAK SPACE", "OGHAM SPACE MARK", "EN QUAD", "EM QUAD",
     "EN SPACE", "EM SPACE", "THREE-PER-EM SPACE", "FOUR-PER-EM SPACE",
     "SIX-PER-EM SPACE", "FIGURE SPACE", "PUNCTUATION SPACE", "THIN SPACE",
     "HAIR SPACE", "LINE SEPARATOR", "PARAGRAPH SEPARATOR",
     "NARROW NO-BREAK SPACE", "MEDIUM MATHEMATICAL SPACE",
     "IDEOGRAPHIC SPACE"}

\* str.strip()
RECURSIVE Strip(_)
Strip(t) ==
    IF t = <<>> THEN t
    ELSE IF Head(t) \in Whitespace THEN Strip(Tail(t))
    ELSE IF t[Len(t)] \in Whitespace THEN Strip(SubSeq(t, 1, Len(t) - 1))
    ELSE t

\* The keyword lists of lines 93-101
KeywordsOf(role) ==
    CASE role = "item_code" ->
            {<<"i", "t", "e", "m">>, <<"c", "o", "d", "e">>, <<"a", "r", "t", "i", "c", "l", "e">>}
      [] role = "description" ->
            {<<"d", "e", "s", "c">>, <<"d", "e", "s", "c", "r", "i", "p", "t", "i", "o", "n">>, <<"p", "r", "o", "d", "u", "c", "t">>}
      [] role = "quantity" ->
            {<<"q", "t", "y">>, <<"q", "u", "a", "n", "t", "i", "t", "y">>, <<"a", "m", "o", "u", "n", "t">>}
      [] role = "unit_price" ->
            {<<"p", "r", "i", "c", "e">>, <<"u", "n", "i", "t">>}
      [] role = "total_price" ->
            {<<"t", "o", "t", "a", "l">>, <<"s", "u", "m">>}

\* any(x in header_lower for x in [...])
AnyIn(role, header_lower) ==
    \E x \in KeywordsOf(role) : IsSubstring(x, header_lower)

\* The if / elif chain of lines 93-102 with 'total' tested before 'price'.
RoleOfHeader_TotalBeforePrice(header_lower) ==
    IF AnyIn("item_code", header_lower) THEN "item_code"
    ELSE IF AnyIn("description", header_lower) THEN "description"
    ELSE IF AnyIn("quantity", header_lower) THEN "quantity"
    ELSE IF AnyIn("total_price", header_lower) THEN "total_price"
    ELSE IF AnyIn("unit_price", header_lower) THEN "unit_price"
    ELSE "none"

\* The if / elif chain of lines 93-102: the key the cell is stored under
RoleOfHeader(header_lower) ==
    IF AnyIn("item_code", header_lower) THEN "item_code"
    ELSE IF AnyIn("description", header_lower) THEN "description"
    ELSE IF AnyIn("quantity", header_lower) THEN "quantity"
    ELSE IF AnyIn("unit_price", header_lower) THEN "unit_price"
    ELSE IF AnyIn("total_price", header_lower) THEN "total_price"
    ELSE "none"

\* _identify_columns (lines 86-104); i is the 0-based index of enumerate
RECURSIVE IdentifyLoop(_, _, _)
IdentifyLoop(header_row, i, columns) ==
    IF i >= Len(header_row) THEN columns
    ELSE LET role == RoleOfHeader(LowerText(StrOf(header_row[i + 1])))
         IN IdentifyLoop(header_row, i + 1,
                IF role = "none" THEN columns
                ELSE [r \in DOMAIN columns \cup {role} |->
                         IF r = role THEN i ELSE columns[r]])

identify_columns(header_row) == IdentifyLoop(header_row, 0, [role \in {} |-> 0])

\* dict.get(key, default)
DictGet(dict, key, default) ==
    IF key \in DOMAIN dict THEN dict[key] ELSE default

\* Decimal.__mul__
DecimalMul(a, b) == Dec(a.coef * b.coef, a.places + b.places)

\* The columns _parse_row reads (lines 110-116), as 0-based indices
ColumnOf(columns, role) ==
    CASE role = "item_code" -> DictGet(columns, "item_code", 0)
      [] role = "description" -> DictGet(columns, "description", 1)
      [] role = "quantity" -> DictGet(columns, "quantity", 2)
      [] role = "unit_price" -> DictGet(columns, "unit_price", 3)
      [] role = "total_price" -> DictGet(columns, "total_price", 4)

Roles == <<"item_code", "description", "quantity", "unit_price", "total_price">>

\* _parse_row (lines 106-131): <<>> for None, else <<the Item>>.  An index
\* beyond the row raises IndexError, which the except clause turns into
\* None; a str is true when not empty, a Decimal when not zero.
parse_row(row, columns) ==
    IF \E k \in 1 .. 5 : ColumnOf(columns, Roles[k]) >= Len(row)
    THEN <<>>
    ELSE LET item_code == Strip(StrOf(row[ColumnOf(columns, "item_code") + 1]))
             description ==
                 Strip(StrOf(row[ColumnOf(columns, "description") + 1]))
             quantity ==
                 parse_decimal(row[ColumnOf(columns, "quantity") + 1]).value
             unit_price ==
                 parse_decimal(row[ColumnOf(columns, "unit_price") + 1]).value
             total_price ==
                 parse_decimal(row[ColumnOf(columns, "total_price") + 1]).value
         IN IF item_code # <<>> /\ quantity.coef # 0 /\ unit_price.coef # 0
            THEN <<[item_code |-> item_code, description |-> description,
                    quantity |-> quantity, unit_price |-> unit_price,
                    total_price |-> IF total_price.coef # 0 THEN total_price
                                    ELSE DecimalMul(quantity, unit_price)]>>
            ELSE <<>>

\* Lines 75-82: what _parse_row returns for each data row
ParsedRows(tbl, columns) ==
    [j \in 1 .. Len(tbl) - 1 |-> parse_row(tbl[j + 1], columns)]

RECURSIVE Flatten(_)
Flatten(seqs) ==
    IF seqs = <<>> THEN <<>> ELSE Head(seqs) \o Flatten(Tail(seqs))

\* _process_table (lines 60-84): the dict, the row results and the list
process_table(tbl) ==
    IF tbl = <<>>
    THEN [column_indices |-> <<>>, parsed_rows |-> <<>>, items |-> <<>>]
    ELSE LET columns == identify_columns(tbl[1])
         IN IF DOMAIN columns = {}
            THEN [column_indices |-> <<columns>>, parsed_rows |-> <<>>,
                  items |-> <<>>]
            ELSE [column_indices |-> <<columns>>,
                  parsed_rows |-> ParsedRows(tbl, columns),
                  items |-> Flatten(ParsedRows(tbl, columns))]

\* Header rows: every mix of recognised cells (StdHeader, the header cells
\* of test_process_table, tests/test_pdf_processor.py:154) and cells that
\* contain no keyword (OtherHeader), the header
\* of test_identify_columns, one whose last cell contains both 'total' and
\* 'price', one without a total column, one in another column order, one
\* with a None cell and capitals, and the empty row
Headers ==
    LET StdHeader ==
            <<Str(<<"I", "t", "e", "m", " ", "C", "o", "d", "e">>),
             Str(<<"D", "e", "s", "c", "r", "i", "p", "t", "i", "o", "n">>),
             Str(<<"Q", "t", "y">>),
             Str(<<"U", "n", "i", "t", " ", "P", "r", "i", "c", "e">>),
             Str(<<"T", "o", "t", "a", "l">>)>>
        OtherHeader ==
            <<Str(<<"P", "o", "s">>),
             Str(<<"T", "e", "x", "t">>),
             Str(<<"M", "e", "n", "g", "e">>),
             Str(<<"P", "r", "e", "i", "s">>),
             Str(<<"G", "e", "s", "a", "m", "t">>)>>
    IN {[k \in 1 .. 5 |-> IF k \in S THEN StdHeader[k] ELSE OtherHeader[k]] :
           S \in SUBSET (1 .. 5)}
       \cup {<<Str(<<"I", "t", "e", "m", " ", "N", "u", "m", "b", "e", "r">>),
              Str(<<"P", "r", "o", "d", "u", "c", "t", " ", "D", "e", "s", "c", "r", "i", "p", "t", "i", "o", "n">>),
              Str(<<"Q", "u", "a", "n", "t", "i", "t", "y">>),
              Str(<<"P", "r", "i", "c", "e", "/", "U", "n", "i", "t">>),
              Str(<<"L", "i", "n", "e", " ", "T", "o", "t", "a", "l">>)>>,
             <<Str(<<"I", "t", "e", "m">>),
              Str(<<"D", "e", "s", "c">>),
              Str(<<"Q", "t", "y">>),
              Str(<<"U", "n", "i", "t", " ", "P", "r", "i", "c", "e">>),
              Str(<<"T", "o", "t", "a", "l", " ", "P", "r", "i", "c", "e">>)>>,
             <<Str(<<"I", "t", "e", "m", " ", "C", "o", "d", "e">>),
              Str(<<"D", "e", "s", "c", "r", "i", "p", "t", "i", "o", "n">>),
              Str(<<"Q", "t", "y">>),
              Str(<<"U", "n", "i", "t", " ", "P", "r", "i", "c", "e">>)>>,
             <<Str(<<"Q", "t", "y">>),
              Str(<<"I", "t", "e", "m", " ", "C", "o", "d", "e">>),
              Str(<<"U", "n", "i", "t", " ", "P", "r", "i", "c", "e">>),
              Str(<<"D", "e", "s", "c", "r", "i", "p", "t", "i", "o", "n">>),
              Str(<<"T", "o", "t", "a", "l">>)>>,
             <<[none |-> TRUE, text |-> <<>>],
              Str(<<"A", "R", "T", "I", "C", "L", "E">>),
              Str(<<"a", "m", "o", "u", "n", "t">>)>>,
             <<>>}

\* Data rows: item code "A", description, quantity, unit price and, in
\* the rows of five cells, total; one row with an empty item code and one
\* in the other column order
DataRows ==
    {<<Str(<<"A">>), Str(<<"x">>), Str(q), Str(u)>> \o t :
        q \in {<<"2">>, <<"0">>, <<>>},
        u \in {<<"1", ".", "5">>, <<"0">>, <<"n", "/", "a">>},
        t \in {<<Str(<<"3">>)>>, <<Str(<<>>)>>, <<>>}}
    \cup {<<Str(<<>>), Str(<<"x">>), Str(<<"2">>), Str(<<"1", ".", "5">>), Str(<<"3">>)>>,
          <<Str(<<"\t">>), Str(<<"x">>), Str(<<"2">>), Str(<<"1", ".", "5">>), Str(<<"3">>)>>,
          <<Str(<<"2">>), Str(<<"A">>), Str(<<"1", ".", "5">>), Str(<<"x">>), Str(<<"3">>)>>}

Tables ==
    {<<>>} \cup {<<h>> \o rows : h \in Headers, rows \in SeqsUpTo(DataRows, MaxRows)}

InitTable ==
    /\ table \in Tables
    /\ column_indices = <<>>
    /\ parsed_rows = <<>>
    /\ table_items = <<>>
    /\ ReconcileIdle
    /\ ParseIdle
    /\ ExtractIdle
    /\ HandlerIdle
    /\ AutoIdle
    /\ NotifyIdle
    /\ PriceIdle

\* table_items = self._process_table(table)
ProcessTable ==
    /\ table_items = <<>>
    /\ LET r == process_table(table)
       IN /\ column_indices' = r.column_indices
          /\ parsed_rows' = r.parsed_rows
          /\ table_items' = <<r.items>>
    /\ UNCHANGED table
    /\ UNCHANGED OutsideTable

NextTable == ProcessTable

SpecTable == InitTable /\ [][NextTable]_vars

\* Reference: the first role, in the order of Roles, one of whose keywords
\* is a substring of the lower-cased cell text; "none" if there is none
FirstRole(cell) ==
    LET text == LowerText(StrOf(cell))
        matching == {k \in 1 .. 5 :
                        \E x \in KeywordsOf(Roles[k]) : IsSubstring(x, text)}
    IN IF matching = {} THEN "none"
       ELSE Roles[CHOOSE k \in matching : \A m \in matching : k <= m]

\* Reference: the 0-based indices of the header cells with that first role
CellsWithRole(header_row, role) ==
    {i \in 0 .. Len(header_row) - 1 : FirstRole(header_row[i + 1]) = role}

RoleSet == {Roles[k] : k \in 1 .. 5}

\* C24: _identify_columns assigns a header cell at most one role, the first
\* role in the order item_code, description, quantity, unit_price,
\* total_price with a keyword that is a case-insensitive substring of the
\* cell; a header row with one cell for each role yields all five roles
\* mapped to the indices of those cells.
C24_FirstRoleWins ==
    column_indices # <<>> =>
        LET columns == column_indices[1]
            header_row == table[1]
        IN /\ DOMAIN columns \subseteq RoleSet
           /\ \A role \in DOMAIN columns :
                 columns[role] \in CellsWithRole(header_row, role)
           /\ \A i \in 0 .. Len(header_row) - 1 :
                 Cardinality({role \in DOMAIN columns : columns[role] = i}) <= 1
           /\ \A role \in RoleSet :
                 Cardinality(CellsWithRole(header_row, role)) = 1 =>
                     /\ role \in DOMAIN columns
                     /\ CellsWithRole(header_row, role) = {columns[role]}

\* The header of another column order has been identified: all five roles
\* are mapped and item_code is the second column.
C24_Witness ==
    /\ column_indices # <<>>
    /\ DOMAIN column_indices[1] = RoleSet
    /\ column_indices[1]["item_code"] = 1
    /\ column_indices[1]["quantity"] = 0

\* Reference: the column a field is read from: the header cell with that
\* role (the last one, if several), else the positional default
DefaultColumn(role) == CHOOSE k \in 0 .. 4 : Roles[k + 1] = role

ExpectedColumn(header_row, role) ==
    LET cells == CellsWithRole(header_row, role)
    IN IF cells = {} THEN DefaultColumn(role)
       ELSE CHOOSE i \in cells : \A m \in cells : m <= i

ExpectedColumns(header_row) ==
    [role \in RoleSet |-> ExpectedColumn(header_row, role)]

\* C25: a field whose role the header row does not yield is read from its
\* positional default column (0 .. 4), for any subset of unrecognised
\* roles, also when no header cell matches any keyword: the data rows of
\* such a table still produce Items.
C25_PositionalDefaults ==
    (table_items # <<>> /\ table # <<>>) =>
        table_items[1] =
            Flatten([j \in 1 .. Len(table) - 1 |->
                        parse_row(table[j + 1], ExpectedColumns(table[1]))])

\* Reference: the cell of a data row that _parse_row reads for a role
\* (<<>> if the row has no such cell, else <<cell>>)
CellFor(row, columns, role) ==
    IF ColumnOf(columns, role) < Len(row)
    THEN <<row[ColumnOf(columns, role) + 1]>>
    ELSE <<>>

\* Reference: the cell is missing, None, empty or not a number
EmptyOrUnparsable(c) ==
    \/ c = <<>>
    \/ c[1].none
    \/ c[1].text = <<>>
    \/ DecimalFromString(NormaliseSeparators(CleanValue(c[1].text))).outcome
          # "returned"

\* Reference: the item_code cell is missing or empty
EmptyCode(c) == c = <<>> \/ Strip(StrOf(c[1])) = <<>>

\* C26: a table row is discarded exactly when its item_code cell is empty or
\* its raw quantity or unit_price cell is empty or unparsable; a row with a
\* non-empty item_code whose quantity or unit_price is a parsable zero
\* still produces an Item.
C26_DiscardOnlyAbsent ==
    column_indices # <<>> =>
        \A j \in 1 .. Len(parsed_rows) :
            LET row == table[j + 1]
                columns == column_indices[1]
            IN (parsed_rows[j] = <<>>) <=>
                   \/ EmptyCode(CellFor(row, columns, "item_code"))
                   \/ EmptyOrUnparsable(CellFor(row, columns, "quantity"))
                   \/ EmptyOrUnparsable(CellFor(row, columns, "unit_price"))

\* C27: a row with a valid item_code, quantity and unit_price whose total
\* cell is empty, or whose table has no total column, still produces an
\* Item, with total_price = quantity * unit_price.
C27_TotalDerived ==
    column_indices # <<>> =>
        \A j \in 1 .. Len(parsed_rows) :
            LET row == table[j + 1]
                columns == column_indices[1]
                code == CellFor(row, columns, "item_code")
                qty == CellFor(row, columns, "quantity")
                price == CellFor(row, columns, "unit_price")
                total == CellFor(row, columns, "total_price")
            IN (/\ ~EmptyCode(code)
                /\ qty # <<>> /\ parse_decimal(qty[1]).value.coef # 0
                /\ price # <<>> /\ parse_decimal(price[1]).value.coef # 0
                /\ (total = <<>> \/ total[1].none \/ total[1].text = <<>>))
               => /\ parsed_rows[j] # <<>>
                  /\ DecimalEq(parsed_rows[j][1].total_price,
                               DecimalMul(parse_decimal(qty[1]).value,
                                          parse_decimal(price[1]).value))

====
